---- MODULE Spec2Model ----
(***************************************************************************)
(* Receptrix: AI voice receptionist.  A model of the booking ledger        *)
(* (database.py), the availability engine (check_time_slot_available,      *)
(* get_available_slots), the conversation orchestrator (voice_handler.py)  *)
(* and the webhook handlers that drive them (twilio_service.py, main.py).  *)
(***************************************************************************)
EXTENDS Integers, Sequences, FiniteSets, TLC

VARIABLES
    appointments,         \* table appointments: sequence of rows, id = index
    callers,              \* table callers: sequence of rows, id = index
    conversation_states,  \* table conversation_states: call_sid -> row
    call_logs,            \* table call_logs: call_sid -> row
    pending,              \* requests suspended between availability check and insert
    last                  \* what the last handler returned to its caller

vars == <<appointments, callers, conversation_states, call_logs, pending, last>>

\* ------------------------------------------------------------------ bounds

MaxAppointments == 2      \* rows of the appointments table
MaxMessages == 7          \* messages kept in one conversation
MaxCalls == 2             \* a caller's total_calls counter

\* ------------------------------------------------------- values and inputs

None == "None"            \* Python None / SQL NULL

Truthy(v) == v # None /\ v # ""

CallSids == {"CA1", "CA2"}

\* models.ConversationState
ConversationState == {"greeting", "gathering_info", "checking_availability",
                      "confirming_booking", "providing_info", "farewell"}

\* models.AppointmentStatus
AppointmentStatus == {"scheduled", "confirmed", "cancelled", "completed", "no_show"}

\* ------------------------------------------------------------ configuration

\* BusinessConfig.services: name and duration in minutes.
Services == << [name |-> "Haircut", duration |-> 30],
               [name |-> "Massage", duration |-> 60] >>

\* str.lower(), as far as its result is compared: with a lowered service
\* name and with "closed".
Lower(s) ==
    CASE s = "Haircut" -> "haircut"
      [] s = "Massage" -> "massage"
      [] s = "Manicure" -> "manicure"
      [] s = "Closed" -> "closed"
      [] s = "CLOSED" -> "closed"
      [] OTHER -> s

\* BusinessConfig.working_hours: one string per weekday.
WorkingHours ==
    [monday |-> "9:00 AM - 5:00 PM", tuesday |-> "9:00 AM - 11:00 AM",
     wednesday |-> "9:00 AM - 5:00 PM", thursday |-> "9:00 AM - 5:00 PM",
     friday |-> "9:00 AM - 5:00 PM", saturday |-> "10:00 AM - 2:00 PM",
     sunday |-> "Closed"]

\* --------------------------------------------------- dates and clock times

ParseError == -1

MinutesPerDay == 1440

\* datetime.strptime(date, "%Y-%m-%d"): the day, counted in days of January
\* 2025, or ParseError (ValueError).  Zero padding is optional for strptime.
ParseDate(s) ==
    CASE s = "2025-01-13" -> 13
      [] s = "2025-1-13" -> 13
      [] s = "2025-01-14" -> 14
      [] s = "2025-01-19" -> 19
      [] OTHER -> ParseError

\* strftime("%A").lower() of a parsed day: 13 January 2025 is a Monday.
DayName(day) ==
    LET k == (day - 13) % 7 IN
    CASE k = 0 -> "monday" [] k = 1 -> "tuesday" [] k = 2 -> "wednesday"
      [] k = 3 -> "thursday" [] k = 4 -> "friday" [] k = 5 -> "saturday"
      [] OTHER -> "sunday"

Pad2(n) == IF n < 10 THEN "0" \o ToString(n) ELSE ToString(n)

\* datetime.strftime("%H:%M") of a minute of the day.
FormatTime(m) == Pad2(m \div 60) \o ":" \o Pad2(m % 60)

\* The minutes of the day on the quarter-hour grid, each with its %H:%M text.
ClockTexts == {<<FormatTime(15 * k), 15 * k>> : k \in 0..95}

\* datetime.strptime(time, "%H:%M"): minute of the day or ParseError.
\* strptime also accepts an hour without zero padding ("9:00").
ParseTime(s) ==
    IF \E p \in ClockTexts : p[1] = s
    THEN (CHOOSE p \in ClockTexts : p[1] = s)[2]
    ELSE CASE s = "9:00" -> 540
           [] OTHER -> ParseError

\* datetime.strptime(s, "%I:%M %p"): minute of the day or ParseError.
ParseClock12(s) ==
    CASE s = "9:00 AM" -> 540
      [] s = "10:00 AM" -> 600
      [] s = "11:00 AM" -> 660
      [] s = "2:00 PM" -> 840
      [] s = "5:00 PM" -> 1020
      [] s = "12:00 AM" -> 0
      [] OTHER -> ParseError

\* working_hours.split(" - "), each part stripped.
SplitHours(h) ==
    CASE h = "9:00 AM - 5:00 PM" -> <<"9:00 AM", "5:00 PM">>
      [] h = "9:00 AM - 11:00 AM" -> <<"9:00 AM", "11:00 AM">>
      [] h = "10:00 AM - 2:00 PM" -> <<"10:00 AM", "2:00 PM">>
      [] h = "5:00 PM - 9:00 AM" -> <<"5:00 PM", "9:00 AM">>
      [] h = "09:00 - 17:00" -> <<"09:00", "17:00">>
      [] OTHER -> <<h>>

\* Hours strings handed to get_available_slots.
HoursInputs == {"9:00 AM - 5:00 PM", "9:00 AM - 11:00 AM", "5:00 PM - 9:00 AM",
                "Closed", "closed", "Closed ",
                "09:00 - 17:00", "9:00 AM-5:00 PM", "9:00 AM", ""}

\* ----------------------------------------------------------- booking ledger

\* Lexicographic rank of a stored appointment_time string, as ORDER BY on a
\* TEXT column compares it: zero-padded times sort by the clock, and a time
\* whose hour is the single digit 9 sorts after all of them.
TextRank(s) ==
    IF \E p \in ClockTexts : p[1] = s
    THEN ParseTime(s)
    ELSE MinutesPerDay + ParseTime(s)

\* A listing of the date that leaves the cancelled appointments in.
appointments_any_status(appts, date) ==
    LET ids == {i \in DOMAIN appts : appts[i].appointment_date = date}
        n == Cardinality(ids)
        order == CHOOSE f \in [1..n -> ids] :
                    /\ \A a, b \in 1..n : a # b => f[a] # f[b]
                    /\ \A a, b \in 1..n : a < b => f[a] < f[b]
    IN [k \in 1..n |-> appts[order[k]]]

\* SELECT * FROM appointments WHERE appointment_date = ? AND status !=
\* 'cancelled' ORDER BY appointment_time.  The date is compared as text.
get_appointments_for_date(appts, date) ==
    LET ids == {i \in DOMAIN appts :
                   /\ appts[i].appointment_date = date
                   /\ appts[i].status # "cancelled"}
        n == Cardinality(ids)
        Before(i, j) ==
            \/ TextRank(appts[i].appointment_time) < TextRank(appts[j].appointment_time)
            \/ /\ TextRank(appts[i].appointment_time) = TextRank(appts[j].appointment_time)
               /\ i <= j
        order == CHOOSE f \in [1..n -> ids] :
                    /\ \A a, b \in 1..n : a # b => f[a] # f[b]
                    /\ \A a, b \in 1..n : a < b => Before(f[a], f[b])
    IN [k \in 1..n |-> appts[order[k]]]

\* datetime.strptime(f"{date} {time}", "%Y-%m-%d %H:%M") as minutes since
\* the start of January 2025, or ParseError.
ParseDateTime(date, time) ==
    IF ParseDate(date) = ParseError \/ ParseTime(time) = ParseError
    THEN ParseError
    ELSE ParseDate(date) * MinutesPerDay + ParseTime(time)

\* An overlap test on closed intervals: appointments that only touch count
\* as overlapping.
OverlapsClosed(requested_start, requested_end, apt_start, apt_end) ==
    ~(requested_end < apt_start \/ requested_start > apt_end)

\* The overlap test of check_time_slot_available for one stored appointment.
Overlaps(requested_start, requested_end, apt_start, apt_end) ==
    ~(requested_end <= apt_start \/ requested_start >= apt_end)

\* An availability check that finds every interval it can parse free.
check_always_free(appts, date, time, duration) ==
    IF ParseDateTime(date, time) = ParseError
    THEN [raised |-> TRUE, value |-> FALSE]
    ELSE [raised |-> FALSE, value |-> TRUE]

\* check_time_slot_available(date, time, duration): raised is TRUE when
\* strptime raises ValueError, else value is the returned bool.
check_time_slot_available(appts, date, time, duration) ==
    LET rows == get_appointments_for_date(appts, date)
        requested_start == ParseDateTime(date, time)
        requested_end == requested_start + duration
        AptStart(apt) == ParseDateTime(apt.appointment_date, apt.appointment_time)
    IN IF requested_start = ParseError
       THEN [raised |-> TRUE, value |-> FALSE]
       ELSE IF \E k \in DOMAIN rows : AptStart(rows[k]) = ParseError
       THEN [raised |-> TRUE, value |-> FALSE]
       ELSE [raised |-> FALSE,
             value |-> ~\E k \in DOMAIN rows :
                          Overlaps(requested_start, requested_end,
                                   AptStart(rows[k]),
                                   AptStart(rows[k]) + rows[k].duration_minutes)]

\* The cadence of the slot grid of get_available_slots.
SlotStep == 30

\* The while loop of get_available_slots from `current`; an exception of
\* the availability check leaves the loop with the slots found so far.
RECURSIVE WalkSlots(_, _, _, _, _, _)
WalkSlots(appts, date, current, end_time, service_duration, available_slots) ==
    IF ~(current + service_duration <= end_time)
    THEN available_slots
    ELSE LET time_str == FormatTime(current)
             chk == check_time_slot_available(appts, date, time_str, service_duration)
         IN IF chk.raised
            THEN available_slots
            ELSE WalkSlots(appts, date, current + SlotStep, end_time, service_duration,
                           IF chk.value THEN Append(available_slots, time_str)
                           ELSE available_slots)

\* The grid walk without the availability check.
RECURSIVE WalkGrid(_, _, _, _)
WalkGrid(current, end_time, service_duration, available_slots) ==
    IF ~(current + service_duration <= end_time)
    THEN available_slots
    ELSE WalkGrid(current + SlotStep, end_time, service_duration,
                  Append(available_slots, FormatTime(current)))

\* A slot list that never asks check_time_slot_available.
slots_unfiltered(appts, date, working_hours, service_duration) ==
    IF Lower(working_hours) = "closed" \/ Len(SplitHours(working_hours)) < 2
    THEN [raised |-> FALSE, slots |-> <<>>]
    ELSE LET start_time == ParseClock12(SplitHours(working_hours)[1])
             end_time == ParseClock12(SplitHours(working_hours)[2])
         IN IF start_time = ParseError \/ end_time = ParseError
            THEN [raised |-> FALSE, slots |-> <<>>]
            ELSE [raised |-> FALSE,
                  slots |-> WalkGrid(start_time, end_time, service_duration, <<>>)]

\* A slot list whose last slot must end before closing time.
slots_before_close(appts, date, working_hours, service_duration) ==
    IF Lower(working_hours) = "closed" \/ Len(SplitHours(working_hours)) < 2
    THEN [raised |-> FALSE, slots |-> <<>>]
    ELSE LET start_time == ParseClock12(SplitHours(working_hours)[1])
             end_time == ParseClock12(SplitHours(working_hours)[2])
         IN IF start_time = ParseError \/ end_time = ParseError
            THEN [raised |-> FALSE, slots |-> <<>>]
            ELSE [raised |-> FALSE,
                  slots |-> WalkSlots(appts, date, start_time, end_time - 1,
                                      service_duration, <<>>)]

\* A slot list without the try/except: IndexError and ValueError reach the
\* caller.
slots_uncaught(appts, date, working_hours, service_duration) ==
    IF Lower(working_hours) = "closed"
    THEN [raised |-> FALSE, slots |-> <<>>]
    ELSE IF Len(SplitHours(working_hours)) < 2
    THEN [raised |-> TRUE, slots |-> <<>>]
    ELSE LET start_time == ParseClock12(SplitHours(working_hours)[1])
             end_time == ParseClock12(SplitHours(working_hours)[2])
         IN IF start_time = ParseError \/ end_time = ParseError
            THEN [raised |-> TRUE, slots |-> <<>>]
            ELSE [raised |-> FALSE,
                  slots |-> WalkSlots(appts, date, start_time, end_time,
                                      service_duration, <<>>)]

\* A slot list that takes only the exact word "closed" for a closed day and
\* has no try/except.
slots_exact_closed(appts, date, working_hours, service_duration) ==
    IF working_hours = "closed"
    THEN [raised |-> FALSE, slots |-> <<>>]
    ELSE IF Len(SplitHours(working_hours)) < 2
    THEN [raised |-> TRUE, slots |-> <<>>]
    ELSE slots_uncaught(appts, date, working_hours, service_duration)

\* get_available_slots(date, working_hours, service_duration): the list it
\* returns; raised is TRUE if an exception leaves the function.
get_available_slots(appts, date, working_hours, service_duration) ==
    IF Lower(working_hours) = "closed"
    THEN [raised |-> FALSE, slots |-> <<>>]
    ELSE LET parts == SplitHours(working_hours) IN
         IF Len(parts) < 2
         THEN [raised |-> FALSE, slots |-> <<>>]      \* IndexError, caught
         ELSE LET start_time == ParseClock12(parts[1])
                  end_time == ParseClock12(parts[2])
              IN IF start_time = ParseError \/ end_time = ParseError
                 THEN [raised |-> FALSE, slots |-> <<>>]   \* ValueError, caught
                 ELSE [raised |-> FALSE,
                       slots |-> WalkSlots(appts, date, start_time, end_time,
                                           service_duration, <<>>)]

\* The loop "for s in config.services: if s.name.lower() == name.lower()":
\* the position of the first match in the configured order, or 0.
FindService(service_name) ==
    IF \E i \in DOMAIN Services : Lower(Services[i].name) = Lower(service_name)
    THEN CHOOSE i \in DOMAIN Services :
            /\ Lower(Services[i].name) = Lower(service_name)
            /\ \A j \in 1..(i - 1) : Lower(Services[j].name) # Lower(service_name)
    ELSE 0

\* A row inserted as already confirmed.
new_confirmed(appts, data, caller_id, duration) ==
    [id |-> Len(appts) + 1,
     caller_id |-> caller_id,
     caller_name |-> data.caller_name,
     caller_phone |-> data.caller_phone,
     service_name |-> data.service_name,
     appointment_date |-> data.appointment_date,
     appointment_time |-> data.appointment_time,
     duration_minutes |-> duration,
     status |-> "confirmed"]

\* The row create_appointment inserts: status scheduled, id the next rowid.
NewAppointment(appts, data, caller_id, duration) ==
    [id |-> Len(appts) + 1,
     caller_id |-> caller_id,
     caller_name |-> data.caller_name,
     caller_phone |-> data.caller_phone,
     service_name |-> data.service_name,
     appointment_date |-> data.appointment_date,
     appointment_time |-> data.appointment_time,
     duration_minutes |-> duration,
     status |-> "scheduled"]

\* The callers table after create_appointment's counter update.
BumpAppointments(cs, caller_id) ==
    IF caller_id = 0 THEN cs
    ELSE [i \in DOMAIN cs |->
            IF i = caller_id
            THEN [cs[i] EXCEPT !.total_appointments = @ + 1]
            ELSE cs[i]]

\* SELECT * FROM callers WHERE phone_number = ?: the row id, or 0.
CallerId(cs, phone_number) ==
    IF \E i \in DOMAIN cs : cs[i].phone_number = phone_number
    THEN CHOOSE i \in DOMAIN cs : cs[i].phone_number = phone_number
    ELSE 0

\* Where create_appointment can fail: nowhere, between the INSERT and the
\* UPDATE of the counter, between the UPDATE and the commit.
Faults == {"none", "after_insert", "after_update"}

\* A create_appointment whose connection commits each statement as it is
\* executed.
create_autocommit(appts, cs, data, caller_id, duration, fault) ==
    LET appts1 == Append(appts, NewAppointment(appts, data, caller_id, duration)) IN
    CASE fault = "after_insert" ->
            [raised |-> TRUE, appointments |-> appts1, callers |-> cs]
      [] fault = "after_update" ->
            [raised |-> TRUE, appointments |-> appts1,
             callers |-> BumpAppointments(cs, caller_id)]
      [] OTHER ->
            [raised |-> FALSE, appointments |-> appts1,
             callers |-> BumpAppointments(cs, caller_id)]

\* create_appointment(data, caller_id, duration): the INSERT and the UPDATE
\* of the caller's counter run on one connection and are committed by the
\* one conn.commit() at the end; an exception before it leaves the function
\* with nothing committed, and the connection is discarded.
create_appointment(appts, cs, data, caller_id, duration, fault) ==
    IF fault # "none"
    THEN [raised |-> TRUE, appointments |-> appts, callers |-> cs]
    ELSE [raised |-> FALSE,
          appointments |-> Append(appts,
                              NewAppointment(appts, data, caller_id, duration)),
          callers |-> BumpAppointments(cs, caller_id)]

\* get_or_create_caller(phone_number, name): the callers table afterwards.
get_or_create_caller(cs, phone_number, name) ==
    LET id == CallerId(cs, phone_number) IN
    IF id # 0
    THEN [cs EXCEPT ![id].total_calls = @ + 1]
    ELSE Append(cs, [phone_number |-> phone_number, name |-> name,
                     total_calls |-> 1, total_appointments |-> 0])

\* A name update that never reaches the callers table.
keep_caller_name(cs, phone_number, name) == cs

\* update_caller_name(phone_number, name): the callers table afterwards.
update_caller_name(cs, phone_number, name) ==
    [i \in DOMAIN cs |->
        IF cs[i].phone_number = phone_number
        THEN [cs[i] EXCEPT !.name = name]
        ELSE cs[i]]

\* A status update under a transition table: cancelled, completed and
\* no_show are final.
update_guarded(appts, appointment_id, status) ==
    [i \in DOMAIN appts |->
        IF appts[i].id = appointment_id
           /\ appts[i].status \in {"scheduled", "confirmed"}
        THEN [appts[i] EXCEPT !.status = status]
        ELSE appts[i]]

\* update_appointment_status(appointment_id, status): an unconditional
\* UPDATE ... WHERE id = ?, which changes nothing when no row has the id.
update_appointment_status(appts, appointment_id, status) ==
    [i \in DOMAIN appts |->
        IF appts[i].id = appointment_id
        THEN [appts[i] EXCEPT !.status = status]
        ELSE appts[i]]

\* ------------------------------------------------------------- slot store

\* save_conversation_state(call_sid, state_data): INSERT OR REPLACE of the row.
save_conversation_state(states, call_sid, context) ==
    [c \in DOMAIN states \cup {call_sid} |->
        IF c = call_sid THEN context ELSE states[c]]

\* delete_conversation_state(call_sid).
delete_conversation_state(states, call_sid) ==
    [c \in DOMAIN states \ {call_sid} |-> states[c]]

\* json.dumps of the messages list, as the TEXT the column holds, and
\* json.loads of it; get_conversation_state reads an empty or NULL column
\* as [].
Dumps(value) == [chars |-> "json", value |-> value]
Loads(text) == text.value
IsEmptyText(text) == text.chars = ""

\* The None get_conversation_state returns for a call without a row,
\* written as a record so that it compares with the dict of a row.
NoRow == [row |-> None]

\* An INSERT OR REPLACE that stamps created_at anew on every save.
insert_restamped(rows, call_sid, state_data, now) ==
    [c \in DOMAIN rows \cup {call_sid} |->
        IF c = call_sid
        THEN [caller_phone |-> state_data.caller_phone,
              state |-> state_data.state,
              caller_name |-> state_data.caller_name,
              requested_service |-> state_data.requested_service,
              requested_date |-> state_data.requested_date,
              requested_time |-> state_data.requested_time,
              messages |-> Dumps(state_data.messages),
              created_at |-> now,
              updated_at |-> now]
        ELSE rows[c]]

\* The statement of save_conversation_state(call_sid, state_data) run at
\* time `now`, on the table with its timestamp columns: INSERT OR REPLACE
\* with created_at = COALESCE((SELECT created_at ... WHERE call_sid = ?), now).
InsertOrReplace(rows, call_sid, state_data, now) ==
    [c \in DOMAIN rows \cup {call_sid} |->
        IF c = call_sid
        THEN [caller_phone |-> state_data.caller_phone,
              state |-> state_data.state,
              caller_name |-> state_data.caller_name,
              requested_service |-> state_data.requested_service,
              requested_date |-> state_data.requested_date,
              requested_time |-> state_data.requested_time,
              messages |-> Dumps(state_data.messages),
              created_at |-> IF call_sid \in DOMAIN rows
                             THEN rows[call_sid].created_at ELSE now,
              updated_at |-> now]
        ELSE rows[c]]

\* A read that answers the fresh context for a call without a row.
get_or_fresh(rows, call_sid) ==
    IF call_sid \in DOMAIN rows
    THEN [caller_phone |-> rows[call_sid].caller_phone,
          state |-> rows[call_sid].state,
          caller_name |-> rows[call_sid].caller_name,
          requested_service |-> rows[call_sid].requested_service,
          requested_date |-> rows[call_sid].requested_date,
          requested_time |-> rows[call_sid].requested_time,
          messages |-> Loads(rows[call_sid].messages)]
    ELSE [caller_phone |-> "", state |-> "greeting",
          caller_name |-> None, requested_service |-> None,
          requested_date |-> None, requested_time |-> None,
          messages |-> <<>>]

\* get_conversation_state(call_sid) on the table with its timestamp
\* columns: the dict built from the row, or None.
get_conversation_state(rows, call_sid) ==
    IF call_sid \in DOMAIN rows
    THEN [caller_phone |-> rows[call_sid].caller_phone,
          state |-> rows[call_sid].state,
          caller_name |-> rows[call_sid].caller_name,
          requested_service |-> rows[call_sid].requested_service,
          requested_date |-> rows[call_sid].requested_date,
          requested_time |-> rows[call_sid].requested_time,
          messages |-> IF IsEmptyText(rows[call_sid].messages) THEN <<>>
                       ELSE Loads(rows[call_sid].messages)]
    ELSE NoRow

\* A fresh context that starts in the state gathering_info.
fresh_gathering(caller_phone) ==
    [caller_phone |-> caller_phone, state |-> "gathering_info",
     caller_name |-> None, requested_service |-> None,
     requested_date |-> None, requested_time |-> None,
     messages |-> <<>>]

\* The context generate_response and get_greeting start from when the
\* store has no row: state greeting, no messages, no slots.
FreshContext(caller_phone) ==
    [caller_phone |-> caller_phone, state |-> "greeting",
     caller_name |-> None, requested_service |-> None,
     requested_date |-> None, requested_time |-> None,
     messages |-> <<>>]

\* get_conversation_state(call_sid) or the fresh context.
LoadContext(states, call_sid, caller_phone) ==
    IF call_sid \in DOMAIN states THEN states[call_sid]
    ELSE FreshContext(caller_phone)

\* create_call_log(call_sid, caller_phone): the INSERT of a new row.
create_call_log(logs, call_sid, caller_phone) ==
    [c \in DOMAIN logs \cup {call_sid} |->
        IF c = call_sid
        THEN [caller_phone |-> caller_phone, call_status |-> "incoming",
              ended |-> FALSE, transcript |-> <<>>]
        ELSE logs[c]]

\* update_call_log(call_sid, **kwargs): an UPDATE, which changes nothing
\* when the call has no log row.
update_call_log(logs, call_sid, field, value) ==
    IF call_sid \notin DOMAIN logs THEN logs
    ELSE [logs EXCEPT ![call_sid] =
            CASE field = "call_status" -> [@ EXCEPT !.call_status = value]
              [] field = "ended" -> [@ EXCEPT !.ended = value]
              [] OTHER -> [@ EXCEPT !.transcript = value]]

\* -------------------------------------------------------- the orchestrator

\* What extract_booking_info hands back when the provider fails or the
\* reply does not parse: {} (every .get gives None, is_confirming False).
EmptyExtraction ==
    [json |-> "object", name |-> None, service |-> None, date |-> None,
     time |-> None, is_confirming |-> FALSE]

\* json.loads gave a value that is not an object (a number, a list): it is
\* returned as is and extracted.get raises AttributeError in the caller.
NonObject ==
    [json |-> "other", name |-> None, service |-> None, date |-> None,
     time |-> None, is_confirming |-> FALSE]

\* What the provider does when asked for the extraction: it raises, it
\* answers text that json.loads rejects, or it answers JSON with a value.
ProviderRaises == [kind |-> "raise"]
Unparseable == [kind |-> "text"]
Json(value) == [kind |-> "json", value |-> value]

\* An extraction without the except clause: the failure reaches the caller
\* of extract_booking_info as a value it cannot read.
extract_unguarded(response) ==
    IF response.kind = "json" THEN response.value ELSE NonObject

\* extract_booking_info(text, current_context), lines 275-300: the parsed
\* JSON, whatever it is, and {} when the provider or the parse raised.
extract_booking_info(response) ==
    IF response.kind = "json" THEN response.value ELSE EmptyExtraction

\* A merge that copies every field of the extraction, null or not.
MergeOverwrite(context, extracted) ==
    [context EXCEPT
        !.caller_name = extracted.name,
        !.requested_service = extracted.service,
        !.requested_date = extracted.date,
        !.requested_time = extracted.time]

\* Lines 334-342 of generate_response: the merge of the extraction.
MergeExtracted(context, extracted) ==
    [context EXCEPT
        !.caller_name = IF Truthy(extracted.name) THEN extracted.name ELSE @,
        !.requested_service = IF Truthy(extracted.service) THEN extracted.service ELSE @,
        !.requested_date = IF Truthy(extracted.date) THEN extracted.date ELSE @,
        !.requested_time = IF Truthy(extracted.time) THEN extracted.time ELSE @]

\* A readiness test that does not ask whether the caller is confirming.
finalize_unconfirmed(context, extracted) ==
    /\ Truthy(context.caller_name)
    /\ Truthy(context.requested_service)
    /\ Truthy(context.requested_date)
    /\ Truthy(context.requested_time)

\* _should_finalize_booking(context, extracted).
should_finalize_booking(context, extracted) ==
    /\ Truthy(context.caller_name)
    /\ Truthy(context.requested_service)
    /\ Truthy(context.requested_date)
    /\ Truthy(context.requested_time)
    /\ extracted.is_confirming

\* The availability step of a booking: the service lookup and the conflict
\* check, shared by _attempt_booking (lines 468-495) and
\* create_new_appointment (lines 335-352).
\*   "no_service"  no configured service matches
\*   "error"       strptime raised
\*   "taken"       the check returned False
\*   "free"        the check returned True
BookingCheck(appts, service_name, date, time) ==
    LET ix == FindService(service_name) IN
    IF ix = 0 THEN "no_service"
    ELSE LET chk == check_time_slot_available(appts, date, time, Services[ix].duration)
         IN IF chk.raised THEN "error"
            ELSE IF chk.value THEN "free" ELSE "taken"

\* Lines 497-513 of _attempt_booking: the row inserted for the context.
\* The stored service name is the configured one.
VoiceData(context) ==
    [caller_name |-> context.caller_name,
     caller_phone |-> context.caller_phone,
     service_name |-> Services[FindService(context.requested_service)].name,
     appointment_date |-> context.requested_date,
     appointment_time |-> context.requested_time]
VoiceRow(appts, cs, context) ==
    NewAppointment(appts, VoiceData(context),
                   CallerId(cs, context.caller_phone),
                   Services[FindService(context.requested_service)].duration)

\* Lines 494-520 of _attempt_booking, after the slot was found free:
\* create_appointment inserts the row, whatever the ledger holds by then.
book(appts, cs, context) ==
    LET r == create_appointment(appts, cs, VoiceData(context),
                                CallerId(cs, context.caller_phone),
                                Services[FindService(context.requested_service)].duration,
                                "none")
    IN [success |-> TRUE, appointments |-> r.appointments, callers |-> r.callers]

\* A booking attempt that counts the appointment for the caller before it
\* knows whether the slot is free.
attempt_counting(appts, cs, context) ==
    IF BookingCheck(appts, context.requested_service,
                    context.requested_date, context.requested_time) = "free"
    THEN book(appts, cs, context)
    ELSE [success |-> FALSE, appointments |-> appts,
          callers |-> BumpAppointments(cs, CallerId(cs, context.caller_phone))]

\* _attempt_booking(context): success, and the two tables afterwards.
attempt_booking(appts, cs, context) ==
    IF BookingCheck(appts, context.requested_service,
                    context.requested_date, context.requested_time) = "free"
    THEN book(appts, cs, context)
    ELSE [success |-> FALSE, appointments |-> appts, callers |-> cs]

\* The fixed reply of generate_response when the provider fails.
Apology == "I apologize, I'm having a bit of trouble. Could you please repeat that?"

\* The provider raised instead of returning a reply.
ProviderError == "provider-error"

\* An end-of-call test that is content with a farewell on either side.
ends_on_either(user_input, ai_response) ==
    user_input \in {"Thanks, bye"} \/ ai_response \in {"You're welcome, goodbye!"}

\* _should_end_call(user_input, ai_response): a farewell phrase occurs in
\* the caller's words and one in the reply.
UserFarewell(user_input) == user_input \in {"Thanks, bye"}
AiFarewell(ai_response) == ai_response \in {"You're welcome, goodbye!"}
should_end_call(user_input, ai_response) ==
    UserFarewell(user_input) /\ AiFarewell(ai_response)

\* The name on the caller row of a phone number, None without a row.
NameOf(cs, phone_number) ==
    IF CallerId(cs, phone_number) = 0 THEN None
    ELSE cs[CallerId(cs, phone_number)].name

\* generate_response, lines 311-328: the context loaded or created, the
\* caller's stored name copied into it, the caller's words appended.
PreMergeContext(states, cs, call_sid, caller_phone, caller_input) ==
    LET context0 == LoadContext(states, call_sid, caller_phone)
        name == NameOf(get_or_create_caller(cs, caller_phone, None), caller_phone)
        context1 == IF Truthy(name) THEN [context0 EXCEPT !.caller_name = name]
                    ELSE context0
    IN [context1 EXCEPT !.messages =
           Append(@, [role |-> "user", content |-> caller_input])]

\* generate_response up to the booking decision (lines 311-342): the
\* in-memory context and the callers table.
TurnContext(states, cs, call_sid, caller_phone, caller_input, extracted) ==
    LET cs1 == get_or_create_caller(cs, caller_phone, None) IN
    [context |-> MergeExtracted(
                     PreMergeContext(states, cs, call_sid, caller_phone, caller_input),
                     extracted),
     callers |-> IF Truthy(extracted.name)
                 THEN update_caller_name(cs1, caller_phone, extracted.name)
                 ELSE cs1]

\* A turn's end without the except branch: whatever the provider call gave
\* is spoken and saved as the reply.
finish_unguarded(logs, states, call_sid, context, caller_input, reply) ==
    LET context3 == [context EXCEPT !.messages =
                        Append(@, [role |-> "assistant", content |-> reply])]
        states1 == save_conversation_state(states, call_sid, context3)
    IN IF ~should_end_call(caller_input, reply)
       THEN [call_logs |-> logs, conversation_states |-> states1,
             text |-> reply, should_end_call |-> FALSE]
       ELSE [call_logs |-> update_call_log(logs, call_sid, "transcript",
                                           context3.messages),
             conversation_states |-> delete_conversation_state(states1, call_sid),
             text |-> reply, should_end_call |-> TRUE]

\* generate_response from the reply on (lines 381-410) and the rest of
\* handle_speech_input (lines 108-129): with a reply the context is saved
\* and, on should_end_call, the log completed, the transcript stored and the
\* context deleted; when the provider raises nothing is saved.
FinishTurn(logs, states, call_sid, context, caller_input, reply) ==
    IF reply = ProviderError
    THEN [call_logs |-> logs, conversation_states |-> states,
          text |-> Apology, should_end_call |-> FALSE]
    ELSE LET context3 == [context EXCEPT !.messages =
                             Append(@, [role |-> "assistant", content |-> reply])]
             states1 == save_conversation_state(states, call_sid, context3)
             should_end == should_end_call(caller_input, reply)
             logs1 == update_call_log(update_call_log(logs, call_sid,
                                         "call_status", "completed"),
                                      call_sid, "ended", TRUE)
         IN IF ~should_end
            THEN [call_logs |-> logs, conversation_states |-> states1,
                  text |-> reply, should_end_call |-> FALSE]
            ELSE [call_logs |-> update_call_log(logs1, call_sid, "transcript",
                                                context3.messages),
                  conversation_states |-> delete_conversation_state(states1, call_sid),
                  text |-> reply, should_end_call |-> TRUE]

\* A POST /appointments that inserts for every known service and never asks
\* check_time_slot_available.
create_unchecked(appts, cs, data) ==
    IF FindService(data.service_name) = 0
    THEN [status_code |-> 400, appointments |-> appts, callers |-> cs]
    ELSE LET cs1 == get_or_create_caller(cs, data.caller_phone, data.caller_name)
             caller_id == CallerId(cs1, data.caller_phone)
             duration == Services[FindService(data.service_name)].duration
         IN [status_code |-> 200,
             appointments |-> Append(appts,
                                 NewAppointment(appts, data, caller_id, duration)),
             callers |-> BumpAppointments(cs1, caller_id)]

\* main.create_new_appointment(data), POST /appointments: the answer and the
\* two tables afterwards.  The stored service name is the one the request
\* carries.
create_new_appointment(appts, cs, data) ==
    LET outcome == BookingCheck(appts, data.service_name,
                                data.appointment_date, data.appointment_time)
    IN IF outcome # "free"
       THEN [status_code |-> IF outcome = "error" THEN 500 ELSE 400,
             appointments |-> appts, callers |-> cs]
       ELSE LET cs1 == get_or_create_caller(cs, data.caller_phone, data.caller_name)
                caller_id == CallerId(cs1, data.caller_phone)
                duration == Services[FindService(data.service_name)].duration
                r == create_appointment(appts, cs1, data, caller_id, duration, "none")
            IN [status_code |-> 200,
                appointments |-> r.appointments, callers |-> r.callers]

\* ------------------------------------------------------------ the handlers

\* The phone number each call comes from (the webhook's From field).
PhoneOf(call_sid) == IF call_sid = "CA1" THEN "+15550001" ELSE "+15550002"

\* An incoming-call handler whose call log INSERT replaces the row of a
\* call_sid that is already there, so the greeting runs every time.
incoming_regreets(call_sid, caller_phone) ==
    LET cs1 == get_or_create_caller(callers, caller_phone, None)
        caller == cs1[CallerId(cs1, caller_phone)]
        context0 == FreshContext(caller_phone)
        context1 == IF Truthy(caller.name)
                    THEN [context0 EXCEPT !.caller_name = caller.name]
                    ELSE context0
        greeting == IF Truthy(caller.name) /\ caller.total_calls > 1
                    THEN "welcome back" ELSE "thank you for calling"
        context2 == [context1 EXCEPT !.messages =
                        Append(@, [role |-> "assistant", content |-> greeting])]
    IN /\ call_logs' = create_call_log(call_logs, call_sid, caller_phone)
       /\ callers' = cs1
       /\ conversation_states' =
             save_conversation_state(conversation_states, call_sid, context2)
       /\ last' = [op |-> "incoming", raised |-> FALSE, text |-> greeting]
       /\ UNCHANGED <<appointments, pending>>

\* TwilioService.handle_incoming_call(call_sid, caller_phone): the call log
\* row, then get_greeting.  create_call_log raises on a call_sid that
\* already has a row (call_sid is UNIQUE) and the greeting is not reached.
IncomingCall(call_sid, caller_phone) ==
    IF call_sid \in DOMAIN call_logs
    THEN /\ last' = [op |-> "incoming", raised |-> TRUE]
         /\ UNCHANGED <<appointments, callers, conversation_states, call_logs, pending>>
    ELSE LET cs1 == get_or_create_caller(callers, caller_phone, None)
             caller == cs1[CallerId(cs1, caller_phone)]
             context0 == FreshContext(caller_phone)
             context1 == IF Truthy(caller.name)
                         THEN [context0 EXCEPT !.caller_name = caller.name]
                         ELSE context0
             greeting == IF Truthy(caller.name) /\ caller.total_calls > 1
                         THEN "welcome back" ELSE "thank you for calling"
             context2 == [context1 EXCEPT !.messages =
                             Append(@, [role |-> "assistant", content |-> greeting])]
         IN /\ call_logs' = create_call_log(call_logs, call_sid, caller_phone)
            /\ callers' = cs1
            /\ conversation_states' =
                  save_conversation_state(
                      save_conversation_state(conversation_states, call_sid, context1),
                      call_sid, context2)
            /\ last' = [op |-> "incoming", raised |-> FALSE, text |-> greeting]
            /\ UNCHANGED <<appointments, pending>>

\* TwilioService.handle_speech_input(call_sid, caller_phone, speech_result)
\* with AIVoiceHandler.generate_response inside it: the four tables
\* afterwards and what the caller of the handler gets.  `extracted` is what
\* extract_booking_info returns and `reply` what the provider answers (or
\* ProviderError) when asked for the reply.
handle_speech_input(appts, cs, logs, states, call_sid, caller_phone, caller_input, extracted, reply) ==
    LET logs1 == update_call_log(logs, call_sid, "call_status", "in_progress") IN
    IF extracted.json # "object"
    THEN \* AttributeError at line 334, after get_or_create_caller committed
         [appointments |-> appts,
          callers |-> get_or_create_caller(cs, caller_phone, None),
          call_logs |-> logs1,
          conversation_states |-> states,
          last |-> [op |-> "speech", raised |-> TRUE]]
    ELSE LET t == TurnContext(states, cs, call_sid, caller_phone, caller_input,
                              extracted)
             should_book == should_finalize_booking(t.context, extracted)
             b == IF should_book
                  THEN attempt_booking(appts, t.callers, t.context)
                  ELSE [success |-> FALSE, appointments |-> appts,
                        callers |-> t.callers]
             f == FinishTurn(logs1, states, call_sid, t.context, caller_input, reply)
         IN [appointments |-> b.appointments,
             callers |-> b.callers,
             call_logs |-> f.call_logs,
             conversation_states |-> f.conversation_states,
             last |-> [op |-> "speech", raised |-> FALSE, text |-> f.text,
                       should_end_call |-> f.should_end_call,
                       booking |-> IF ~should_book THEN "none"
                                   ELSE IF b.success THEN "success" ELSE "failure"]]

\* The webhook of a caller's utterance, as one step.
SpeechInput(call_sid, caller_phone, caller_input, extracted, reply) ==
    LET r == handle_speech_input(appointments, callers, call_logs,
                                 conversation_states, call_sid, caller_phone,
                                 caller_input, extracted, reply)
    IN /\ appointments' = r.appointments
       /\ callers' = r.callers
       /\ call_logs' = r.call_logs
       /\ conversation_states' = r.conversation_states
       /\ last' = r.last
       /\ UNCHANGED pending

\* TwilioService.handle_call_status(call_sid, call_status).
CallStatus(call_sid, call_status) ==
    LET db_status == CASE call_status = "completed" -> "completed"
                       [] call_status = "busy" -> "missed"
                       [] call_status = "failed" -> "failed"
                       [] call_status = "no-answer" -> "missed"
                       [] call_status = "canceled" -> "missed"
                       [] OTHER -> "completed"
    IN /\ call_logs' = update_call_log(update_call_log(call_logs, call_sid,
                                          "call_status", db_status),
                                       call_sid, "ended", TRUE)
       /\ conversation_states' = delete_conversation_state(conversation_states, call_sid)
       /\ last' = [op |-> "status", raised |-> FALSE]
       /\ UNCHANGED <<appointments, callers, pending>>

\* The handler of POST /appointments, as one step.
CreateNewAppointment(data) ==
    LET r == create_new_appointment(appointments, callers, data) IN
    /\ appointments' = r.appointments
    /\ callers' = r.callers
    /\ last' = [op |-> "create", raised |-> FALSE, status_code |-> r.status_code]
    /\ UNCHANGED <<conversation_states, call_logs, pending>>

\* The handler of POST /appointments for a request that passes the checks
\* and whose create_appointment raises at `fault`: the exception is answered
\* 500, after get_or_create_caller has committed.
CreateAppointmentFails(data, fault) ==
    /\ fault # "none"
    /\ BookingCheck(appointments, data.service_name, data.appointment_date,
                    data.appointment_time) = "free"
    /\ LET cs1 == get_or_create_caller(callers, data.caller_phone, data.caller_name)
           r == create_appointment(appointments, cs1, data,
                                   CallerId(cs1, data.caller_phone),
                                   Services[FindService(data.service_name)].duration,
                                   fault)
       IN /\ appointments' = r.appointments
          /\ callers' = r.callers
          /\ last' = [op |-> "create", raised |-> FALSE, status_code |-> 500]
    /\ UNCHANGED <<conversation_states, call_logs, pending>>

\* main.update_appointment(appointment_id, status): PATCH
\* /appointments/{id}/status.  A status outside the enum is answered 400.
UpdateAppointment(appointment_id, status) ==
    IF status \notin AppointmentStatus
    THEN /\ last' = [op |-> "update", raised |-> FALSE, status_code |-> 400]
         /\ UNCHANGED <<appointments, callers, conversation_states, call_logs, pending>>
    ELSE /\ appointments' = update_appointment_status(appointments, appointment_id, status)
         /\ last' = [op |-> "update", raised |-> FALSE, status_code |-> 200]
         /\ UNCHANGED <<callers, conversation_states, call_logs, pending>>

\* main.list_appointments(date), GET /appointments?date=: the rows
\* get_appointments_for_date returns, in its order.
ListAppointments(date) ==
    /\ last' = [op |-> "list", raised |-> FALSE, date |-> date,
                appointments |-> get_appointments_for_date(appointments, date)]
    /\ UNCHANGED <<appointments, callers, conversation_states, call_logs, pending>>

\* save_conversation_state(call_sid, state_data) at the time `now`, on the
\* table with its timestamp columns.
Put(call_sid, state_data, now) ==
    /\ conversation_states' = InsertOrReplace(conversation_states, call_sid,
                                              state_data, now)
    /\ last' = [op |-> "put", call_sid |-> call_sid]
    /\ UNCHANGED <<appointments, callers, call_logs, pending>>

\* get_conversation_state(call_sid); the answer is kept in `last`.
Get(call_sid) ==
    /\ last' = [op |-> "get", call_sid |-> call_sid,
                result |-> get_conversation_state(conversation_states, call_sid)]
    /\ UNCHANGED <<appointments, callers, conversation_states, call_logs, pending>>

\* delete_conversation_state(call_sid).
Delete(call_sid) ==
    /\ conversation_states' = delete_conversation_state(conversation_states, call_sid)
    /\ last' = [op |-> "delete", call_sid |-> call_sid]
    /\ UNCHANGED <<appointments, callers, call_logs, pending>>

\* A call of get_available_slots(date, working_hours, service_duration) on
\* the ledger as it stands; the answer is kept in `last`.
GetAvailableSlots(date, working_hours, service_duration) ==
    /\ last' = [op |-> "slots", date |-> date, working_hours |-> working_hours,
                duration |-> service_duration,
                result |-> get_available_slots(appointments, date, working_hours,
                                               service_duration)]
    /\ UNCHANGED <<appointments, callers, conversation_states, call_logs, pending>>

\* A call of check_time_slot_available(date, time, duration) on the ledger
\* as it stands; the answer is kept in `last`.
CheckTimeSlot(date, time, duration) ==
    /\ last' = [op |-> "check_slot", date |-> date, time |-> time,
                duration |-> duration,
                result |-> check_time_slot_available(appointments, date, time, duration)]
    /\ UNCHANGED <<appointments, callers, conversation_states, call_logs, pending>>

\* main.check_availability(date, service): GET /appointments/availability.
CheckAvailability(date, service) ==
    /\ IF ParseDate(date) = ParseError
       THEN last' = [op |-> "availability", raised |-> FALSE, status_code |-> 500]
       ELSE LET working_hours == WorkingHours[DayName(ParseDate(date))]
                duration == IF service # None /\ FindService(service) # 0
                            THEN Services[FindService(service)].duration
                            ELSE 30
                r == get_available_slots(appointments, date, working_hours, duration)
            IN last' = [op |-> "availability", raised |-> FALSE, status_code |-> 200,
                        date |-> date, duration |-> duration,
                        available |-> IF Lower(working_hours) = "closed" THEN FALSE
                                      ELSE Len(r.slots) > 0,
                        slots |-> IF Lower(working_hours) = "closed" THEN <<>>
                                  ELSE r.slots]
    /\ UNCHANGED <<appointments, callers, conversation_states, call_logs, pending>>

\* ------------------------------------------------------- the specifications

Init ==
    /\ appointments = <<>>
    /\ callers = <<>>
    /\ conversation_states = <<>>
    /\ call_logs = <<>>
    /\ pending = <<>>
    /\ last = [op |-> "init", raised |-> FALSE]

\* Spec: the write paths of the booking ledger, one request at a time.
\* Every turn of the call carries a complete, confirmed booking request (or
\* an extraction that failed) and the call says goodbye in the same turn.

LedgerDates == {"2025-01-13", "2025-1-13"}
LedgerTimes == {"09:00", "09:30"}
LedgerServices == {"Haircut", "Massage"}

LedgerExtractions ==
    {EmptyExtraction}
    \cup {[json |-> "object", name |-> "Ann", service |-> s, date |-> d, time |-> t,
           is_confirming |-> TRUE] :
             s \in LedgerServices, d \in LedgerDates, t \in LedgerTimes}

\* The bodies POST /appointments carries; "25:00" is no time of day.
LedgerCreates ==
    {[caller_name |-> "Ann", caller_phone |-> PhoneOf("CA1"), service_name |-> s,
      appointment_date |-> d, appointment_time |-> t] :
        s \in LedgerServices, d \in LedgerDates, t \in LedgerTimes \cup {"25:00"}}

LedgerStatuses == {"cancelled", "scheduled"}

\* The tables stay within the bounds of the model.
LedgerBounded ==
    /\ Len(appointments) <= MaxAppointments
    /\ \A i \in DOMAIN callers : callers[i].total_calls <= MaxCalls

Next ==
    \/ \E e \in LedgerExtractions :
          /\ SpeechInput("CA1", PhoneOf("CA1"), "Thanks, bye", e,
                         "You're welcome, goodbye!")
          /\ LedgerBounded'
    \/ \E data \in LedgerCreates :
          CreateNewAppointment(data) /\ LedgerBounded'
    \/ \E id \in 1..MaxAppointments, st \in LedgerStatuses :
          UpdateAppointment(id, st) /\ LedgerBounded'

Spec == Init /\ [][Next]_vars

\* SpecRace: two calls whose turns run in separate worker processes over the
\* one database file.  A turn that finds its slot free stops between
\* check_time_slot_available and create_appointment; nothing in either
\* function, and no constraint of the appointments table, ties the two.

\* The first half of handle_speech_input for a turn that goes on to book:
\* everything up to and including the availability check.  A turn that does
\* not reach create_appointment runs to its end here.
SpeechCheck(call_sid, caller_phone, caller_input, extracted, reply) ==
    LET t == TurnContext(conversation_states, callers, call_sid, caller_phone,
                         caller_input, extracted)
        free == /\ should_finalize_booking(t.context, extracted)
                /\ BookingCheck(appointments, t.context.requested_service,
                                t.context.requested_date,
                                t.context.requested_time) = "free"
    IN /\ call_sid \notin DOMAIN pending
       /\ extracted.json = "object"
       /\ IF free
          THEN /\ pending' = save_conversation_state(pending, call_sid,
                                [context |-> t.context, caller_input |-> caller_input,
                                 reply |-> reply])
               /\ callers' = t.callers
               /\ call_logs' = update_call_log(call_logs, call_sid,
                                               "call_status", "in_progress")
               /\ last' = [op |-> "check", raised |-> FALSE]
               /\ UNCHANGED <<appointments, conversation_states>>
          ELSE SpeechInput(call_sid, caller_phone, caller_input, extracted, reply)

\* The second half: create_appointment and the rest of the turn.
SpeechInsert(call_sid) ==
    /\ call_sid \in DOMAIN pending
    /\ LET p == pending[call_sid]
           b == book(appointments, callers, p.context)
           f == FinishTurn(call_logs, conversation_states, call_sid, p.context,
                           p.caller_input, p.reply)
       IN /\ appointments' = b.appointments
          /\ callers' = b.callers
          /\ call_logs' = f.call_logs
          /\ conversation_states' = f.conversation_states
          /\ pending' = delete_conversation_state(pending, call_sid)
          /\ last' = [op |-> "speech", raised |-> FALSE, text |-> f.text,
                      should_end_call |-> f.should_end_call, booking |-> "success"]

RaceTimes == {"09:00", "09:30"}
RaceServices == {"Haircut", "Massage"}

RaceExtractions ==
    {[json |-> "object", name |-> "Ann", service |-> s, date |-> "2025-01-13",
      time |-> t, is_confirming |-> TRUE] : s \in RaceServices, t \in RaceTimes}

RaceBounded ==
    /\ Len(appointments) <= MaxAppointments
    /\ \A i \in DOMAIN callers : callers[i].total_calls <= MaxCalls

NextRace ==
    \/ \E call_sid \in CallSids, e \in RaceExtractions :
          /\ SpeechCheck(call_sid, PhoneOf(call_sid), "Thanks, bye", e,
                         "You're welcome, goodbye!")
          /\ RaceBounded'
    \/ \E call_sid \in CallSids : SpeechInsert(call_sid) /\ RaceBounded'

SpecRace == Init /\ [][NextRace]_vars

\* SpecSlots: the availability functions asked on every ledger a few direct
\* bookings and status updates produce.  2025-01-13 is a Monday.

MaxSlotRows == 2

SlotCreates ==
    {[caller_name |-> "Ann", caller_phone |-> PhoneOf("CA1"), service_name |-> s,
      appointment_date |-> "2025-01-13", appointment_time |-> "10:00"] :
        s \in {"Haircut", "Massage"}}

SlotDates == {"2025-01-13", "2025-01-14", "13/01/2025"}
SlotTimes == {"09:00", "09:30", "10:00", "10:30", "11:00", "25:00"}
SlotDurations == {30, 45, 60}

SlotsBounded == Len(appointments) <= MaxSlotRows

NextSlots ==
    \/ \E data \in SlotCreates : CreateNewAppointment(data) /\ SlotsBounded'
    \/ \E id \in 1..MaxSlotRows, st \in {"cancelled", "scheduled"} :
          UpdateAppointment(id, st)
    \/ \E date \in SlotDates, time \in SlotTimes, duration \in SlotDurations :
          CheckTimeSlot(date, time, duration)
    \/ \E date \in SlotDates, working_hours \in HoursInputs,
          duration \in SlotDurations :
          GetAvailableSlots(date, working_hours, duration)

SpecSlots == Init /\ [][NextSlots]_vars

\* SpecTurn: one call, turn after turn.  No extraction carries more than
\* one slot, so a context that knows two slots has kept one of them through
\* a later merge.

TurnExtractions ==
    {EmptyExtraction, NonObject,
     [EmptyExtraction EXCEPT !.name = "Ann"],
     [EmptyExtraction EXCEPT !.name = ""],
     [EmptyExtraction EXCEPT !.service = "Haircut"],
     [EmptyExtraction EXCEPT !.service = "Massage"],
     [EmptyExtraction EXCEPT !.date = "2025-01-13"],
     [EmptyExtraction EXCEPT !.time = "09:00"],
     [EmptyExtraction EXCEPT !.time = ""],
     [EmptyExtraction EXCEPT !.is_confirming = TRUE]}

\* What the caller says with what the provider replies.
TurnTalk ==
    {<<"I would like to book", "Certainly.">>,
     <<"I would like to book", ProviderError>>,
     <<"Thanks, bye", "You're welcome, goodbye!">>}

TurnBounded ==
    /\ Len(appointments) <= MaxAppointments
    /\ \A i \in DOMAIN callers : callers[i].total_calls <= MaxMessages
    /\ \A call_sid \in DOMAIN conversation_states :
          Len(conversation_states[call_sid].messages) <= MaxMessages

NextTurn ==
    \/ IncomingCall("CA1", PhoneOf("CA1")) /\ TurnBounded'
    \/ \E e \in TurnExtractions, talk \in TurnTalk :
          /\ SpeechInput("CA1", PhoneOf("CA1"), talk[1], e, talk[2])
          /\ TurnBounded'
    \/ CallStatus("CA1", "completed")

SpecTurn == Init /\ [][NextTurn]_vars

\* SpecDialog: one call whose turns bring three slots, then the time, with
\* and without the caller's confirmation, a service the business does not
\* offer and a date in another format, with the provider failing at the
\* extraction and at the reply.

MaxTurns == 3

DialogExtractions ==
    {EmptyExtraction, NonObject,
     [EmptyExtraction EXCEPT !.name = "Ann", !.service = "Haircut",
                             !.date = "2025-01-13"],
     [EmptyExtraction EXCEPT !.time = "09:00"],
     [EmptyExtraction EXCEPT !.time = "09:00", !.is_confirming = TRUE],
     [EmptyExtraction EXCEPT !.is_confirming = TRUE],
     [EmptyExtraction EXCEPT !.service = "Manicure", !.is_confirming = TRUE],
     [EmptyExtraction EXCEPT !.date = "13/01/2025", !.is_confirming = TRUE]}

\* What the caller says with what the provider replies: a farewell on both
\* sides, on one side only, on neither, and the provider failing.
DialogTalk ==
    {<<"I would like to book", "Certainly.">>,
     <<"I would like to book", "You're welcome, goodbye!">>,
     <<"Thanks, bye", "Certainly.">>,
     <<"Thanks, bye", "You're welcome, goodbye!">>,
     <<"I would like to book", ProviderError>>,
     <<"Thanks, bye", ProviderError>>}

DialogBounded ==
    /\ Len(appointments) <= MaxAppointments
    /\ \A i \in DOMAIN callers : callers[i].total_calls <= MaxTurns

\* What the provider does at the extraction of a turn.
DialogResponses ==
    {ProviderRaises, Unparseable} \cup {Json(e) : e \in DialogExtractions}

NextDialog ==
    \E response \in DialogResponses, talk \in DialogTalk :
        /\ SpeechInput("CA1", PhoneOf("CA1"), talk[1],
                       extract_booking_info(response), talk[2])
        /\ DialogBounded'

SpecDialog == Init /\ [][NextDialog]_vars

\* SpecAtomic: two callers book by phone and through POST /appointments,
\* and create_appointment fails between its statements.

AtomicTimes == {"09:00", "09:30", "10:00"}

AtomicExtractions ==
    {[json |-> "object", name |-> "Ann", service |-> "Haircut",
      date |-> "2025-01-13", time |-> t, is_confirming |-> TRUE] :
         t \in AtomicTimes}

AtomicCreates ==
    {[caller_name |-> "Bob", caller_phone |-> PhoneOf(sid), service_name |-> "Haircut",
      appointment_date |-> "2025-01-13", appointment_time |-> t] :
        sid \in CallSids, t \in AtomicTimes}

NextAtomic ==
    \/ \E e \in AtomicExtractions :
          /\ SpeechInput("CA1", PhoneOf("CA1"), "Thanks, bye", e,
                         "You're welcome, goodbye!")
          /\ LedgerBounded'
    \/ \E data \in AtomicCreates :
          CreateNewAppointment(data) /\ LedgerBounded'
    \/ \E data \in AtomicCreates, fault \in Faults :
          CreateAppointmentFails(data, fault) /\ LedgerBounded'

SpecAtomic == Init /\ [][NextAtomic]_vars

\* SpecStatus: everything that touches the ledger or runs beside it: a
\* call from its greeting to its end, bookings by phone and through POST
\* /appointments, availability queries, and PATCH /appointments/{id}/status
\* cancelling a row, with a text that is no status, and on an id without row.

StatusExtractions ==
    {EmptyExtraction,
     [json |-> "object", name |-> "Ann", service |-> "Haircut",
      date |-> "2025-01-13", time |-> "09:00", is_confirming |-> TRUE]}

StatusTalk == {<<"I would like to book", "Certainly.">>,
               <<"Thanks, bye", "You're welcome, goodbye!">>}

StatusCreates ==
    {[caller_name |-> "Bob", caller_phone |-> PhoneOf("CA2"), service_name |-> "Haircut",
      appointment_date |-> "2025-01-13", appointment_time |-> "09:30"]}

StatusIds == 1..(MaxAppointments + 1)
StatusTexts == {"cancelled", "pending"}

StatusBounded ==
    /\ Len(appointments) <= MaxAppointments
    /\ \A i \in DOMAIN callers : callers[i].total_calls <= MaxCalls

NextStatus ==
    \/ IncomingCall("CA1", PhoneOf("CA1")) /\ StatusBounded'
    \/ \E e \in StatusExtractions, talk \in StatusTalk :
          /\ SpeechInput("CA1", PhoneOf("CA1"), talk[1], e, talk[2])
          /\ StatusBounded'
    \/ CallStatus("CA1", "completed")
    \/ \E data \in StatusCreates : CreateNewAppointment(data) /\ StatusBounded'
    \/ CheckAvailability("2025-01-13", "Haircut")
    \/ \E id \in StatusIds, st \in StatusTexts : UpdateAppointment(id, st)

SpecStatus == Init /\ [][NextStatus]_vars

\* SpecUpdate: PATCH /appointments/{id}/status with each of the five
\* statuses, a text that is no status and an id without a row, on the
\* appointments two callers made through POST /appointments.

UpdateCreates ==
    {[caller_name |-> "Bob", caller_phone |-> PhoneOf(sid), service_name |-> "Haircut",
      appointment_date |-> "2025-01-13", appointment_time |-> t] :
        sid \in CallSids, t \in {"09:00", "09:30"}}

UpdateIds == 1..(MaxAppointments + 1)
UpdateTexts == AppointmentStatus \cup {"pending"}

NextUpdate ==
    \/ \E data \in UpdateCreates : CreateNewAppointment(data) /\ LedgerBounded'
    \/ \E id \in UpdateIds, st \in UpdateTexts : UpdateAppointment(id, st)

SpecUpdate == Init /\ [][NextUpdate]_vars

\* SpecOrder: GET /appointments?date= on ledgers built through POST
\* /appointments with times written with and without a leading zero, on two
\* days, some rows cancelled.

OrderDates == {"2025-01-13", "2025-01-14"}
OrderTimes == {"9:00", "10:00", "10:30"}

OrderCreates ==
    {[caller_name |-> "Ann", caller_phone |-> PhoneOf("CA1"), service_name |-> "Haircut",
      appointment_date |-> d, appointment_time |-> t] :
        d \in OrderDates, t \in OrderTimes}

NextOrder ==
    \/ \E data \in OrderCreates : CreateNewAppointment(data) /\ LedgerBounded'
    \/ \E id \in 1..MaxAppointments, st \in {"cancelled", "scheduled"} :
          UpdateAppointment(id, st)
    \/ \E date \in OrderDates : ListAppointments(date)

SpecOrder == Init /\ [][NextOrder]_vars

\* SpecStore: the conversation_states table with its timestamps under
\* saves, reads and deletes of two calls.  The clock never runs backwards:
\* a save is stamped no earlier than any row of the table.

MaxClock == 3

StoreContexts ==
    {FreshContext(PhoneOf("CA1")),
     [FreshContext(PhoneOf("CA2")) EXCEPT
         !.state = "gathering_info", !.caller_name = "Ann",
         !.requested_service = "Haircut", !.requested_date = "2025-01-13",
         !.requested_time = "09:00",
         !.messages = <<[role |-> "user", content |-> "I would like to book"],
                        [role |-> "assistant", content |-> "Certainly."]>>]}

\* The readings of the clock a save can see on the table as it stands.
ClockNow(rows) ==
    {now \in 1..MaxClock : \A c \in DOMAIN rows : rows[c].updated_at <= now}

NextStore ==
    \/ \E call_sid \in CallSids, state_data \in StoreContexts,
          now \in ClockNow(conversation_states) :
          Put(call_sid, state_data, now)
    \/ \E call_sid \in CallSids : Get(call_sid)
    \/ \E call_sid \in CallSids : Delete(call_sid)

SpecStore == Init /\ [][NextStore]_vars

\* SpecEnd: a call whose status event can arrive while a turn of it waits
\* for the provider's reply.  The telephony side delivers an utterance only
\* for a call it has announced and not yet reported as ended, and one
\* utterance at a time; nothing orders the status event after the turn.

\* handle_speech_input up to the provider call for the reply
\* (generate_response lines 311-382): the log set to in_progress, the
\* context loaded and merged, the caller counted, the booking attempted.
SpeechBegin(call_sid, caller_phone, caller_input, extracted) ==
    /\ call_sid \notin DOMAIN pending
    /\ call_sid \in DOMAIN call_logs
    /\ ~call_logs[call_sid].ended
    /\ extracted.json = "object"
    /\ LET t == TurnContext(conversation_states, callers, call_sid, caller_phone,
                            caller_input, extracted)
           b == IF should_finalize_booking(t.context, extracted)
                THEN attempt_booking(appointments, t.callers, t.context)
                ELSE [success |-> FALSE, appointments |-> appointments,
                      callers |-> t.callers]
       IN /\ appointments' = b.appointments
          /\ callers' = b.callers
          /\ call_logs' = update_call_log(call_logs, call_sid,
                                          "call_status", "in_progress")
          /\ pending' = save_conversation_state(pending, call_sid,
                            [context |-> t.context, caller_input |-> caller_input])
          /\ last' = [op |-> "begin", raised |-> FALSE]
          /\ UNCHANGED conversation_states

\* The rest of the turn, from the provider's answer on (generate_response
\* lines 383-410, handle_speech_input lines 108-153).
SpeechEnd(call_sid, reply) ==
    /\ call_sid \in DOMAIN pending
    /\ LET p == pending[call_sid]
           f == FinishTurn(call_logs, conversation_states, call_sid, p.context,
                           p.caller_input, reply)
       IN /\ call_logs' = f.call_logs
          /\ conversation_states' = f.conversation_states
          /\ pending' = delete_conversation_state(pending, call_sid)
          /\ last' = [op |-> "speech", raised |-> FALSE, text |-> f.text,
                      should_end_call |-> f.should_end_call]
          /\ UNCHANGED <<appointments, callers>>

EndExtractions ==
    {EmptyExtraction,
     [EmptyExtraction EXCEPT !.name = "Ann", !.service = "Haircut"]}

EndBounded ==
    \A i \in DOMAIN callers : callers[i].total_calls <= MaxTurns

NextEnd ==
    \/ IncomingCall("CA1", PhoneOf("CA1")) /\ EndBounded'
    \/ \E e \in EndExtractions,
          caller_input \in {"I would like to book", "Thanks, bye"} :
          /\ SpeechBegin("CA1", PhoneOf("CA1"), caller_input, e)
          /\ EndBounded'
    \/ \E reply \in {"Certainly.", "You're welcome, goodbye!", ProviderError} :
          SpeechEnd("CA1", reply)
    \/ CallStatus("CA1", "completed")

SpecEnd == Init /\ [][NextEnd]_vars

\* SpecGreet: two calls from one phone number, each greeted, talked to and
\* ended, and a booking for the same number through POST /appointments.
\* An utterance is delivered only for a greeted call that has not ended.

GreetPhone == PhoneOf("CA1")

GreetExtractions == {EmptyExtraction, [EmptyExtraction EXCEPT !.name = "Ann"]}

GreetCreates ==
    {[caller_name |-> "Bob", caller_phone |-> GreetPhone, service_name |-> "Haircut",
      appointment_date |-> "2025-01-13", appointment_time |-> "09:00"]}

GreetBounded ==
    /\ Len(appointments) <= MaxAppointments
    /\ \A i \in DOMAIN callers : callers[i].total_calls <= MaxTurns

NextGreet ==
    \/ \E call_sid \in CallSids :
          IncomingCall(call_sid, GreetPhone) /\ GreetBounded'
    \/ \E call_sid \in CallSids, e \in GreetExtractions :
          /\ call_sid \in DOMAIN call_logs
          /\ ~call_logs[call_sid].ended
          /\ SpeechInput(call_sid, GreetPhone, "I would like to book", e, "Certainly.")
          /\ GreetBounded'
    \/ \E call_sid \in CallSids : CallStatus(call_sid, "completed")
    \/ \E data \in GreetCreates : CreateNewAppointment(data) /\ GreetBounded'

SpecGreet == Init /\ [][NextGreet]_vars

\* ------------------------------------------------- the ledger's properties

\* The interval [start, start + duration) of a stored appointment, in
\* minutes since the start of January 2025.
StartOf(apt) == ParseDateTime(apt.appointment_date, apt.appointment_time)
EndOf(apt) == StartOf(apt) + apt.duration_minutes

\* Two stored appointments whose half-open intervals share a minute.
RowsOverlap(a, b) == StartOf(a) < EndOf(b) /\ StartOf(b) < EndOf(a)

\* C1: in every reachable state no two appointments whose status is not
\* cancelled have overlapping half-open intervals [start, start+duration).
NoOverlappingAppointments ==
    \A i, j \in DOMAIN appointments :
        /\ i < j
        /\ appointments[i].status # "cancelled"
        /\ appointments[j].status # "cancelled"
        => ~RowsOverlap(appointments[i], appointments[j])

\* C3: with one request at a time, a booking request whose interval
\* overlaps an appointment that is not cancelled is rejected and the ledger
\* stays as it was: no step appends a row overlapping such an appointment.
OverlappingRequestRejected ==
    [][Len(appointments') > Len(appointments) =>
          \A i \in DOMAIN appointments :
              appointments[i].status # "cancelled" =>
                  ~RowsOverlap(appointments[i], appointments'[Len(appointments')])]_vars

\* The requests the two booking paths are compared on: a service name as
\* configured, in another letter case and unknown; a date zero-padded,
\* without padding and in another format; a time of day and "25:00".
PathServices == {"Haircut", "massage", "Manicure"}
PathDates == {"2025-01-13", "2025-1-13", "13/01/2025"}
PathTimes == {"09:00", "09:30", "10:00", "25:00"}

\* The context of a call that asks for (service, date, time) and the body
\* of the POST /appointments that asks for the same.
PathContext(service, date, time) ==
    [FreshContext(PhoneOf("CA1")) EXCEPT !.caller_name = "Ann",
                                         !.requested_service = service,
                                         !.requested_date = date,
                                         !.requested_time = time]
PathData(service, date, time) ==
    [caller_name |-> "Ann", caller_phone |-> PhoneOf("CA1"), service_name |-> service,
     appointment_date |-> date, appointment_time |-> time]

\* The voice attempt and the direct request agree on (service, date, time)
\* from the ledger `appts`: one creates exactly when the other does, and the
\* rows they insert carry the same date, time, duration and status.
PathsAgreeOn(appts, cs, service, date, time) ==
    LET voice == attempt_booking(appts, cs, PathContext(service, date, time))
        direct == create_new_appointment(appts, cs, PathData(service, date, time))
        v == voice.appointments[Len(voice.appointments)]
        d == direct.appointments[Len(direct.appointments)]
    IN /\ voice.success <=> direct.status_code = 200
       /\ voice.success <=> Len(voice.appointments) = Len(appts) + 1
       /\ direct.status_code = 200 <=> Len(direct.appointments) = Len(appts) + 1
       /\ ~voice.success => voice.appointments = appts
       /\ direct.status_code # 200 => direct.appointments = appts
       /\ voice.success =>
             /\ v.appointment_date = d.appointment_date
             /\ v.appointment_time = d.appointment_time
             /\ v.duration_minutes = d.duration_minutes
             /\ v.status = d.status
             /\ v.status = "scheduled"

\* C4: from the same ledger and the same (service name, date, time) the
\* direct path creates an appointment exactly when the voice path does, and
\* both store the same date, time, duration and initial status.
BookingPathsAgree ==
    \A service \in PathServices, date \in PathDates, time \in PathTimes :
        PathsAgreeOn(appointments, callers, service, date, time)

\* A ledger on which both paths create one request and both turn another
\* down because the slot is taken.
BookingPathsAgreeWitness ==
    /\ \E i \in DOMAIN appointments : appointments[i].status = "scheduled"
    /\ \E i \in DOMAIN appointments : appointments[i].status = "cancelled"
    /\ \E service \in PathServices, date \in PathDates, time \in PathTimes :
          /\ attempt_booking(appointments, callers,
                             PathContext(service, date, time)).success
          /\ create_new_appointment(appointments, callers,
                                    PathData(service, date, time)).status_code = 200
    /\ \E service \in PathServices, date \in PathDates, time \in PathTimes :
          /\ BookingCheck(appointments, service, date, time) = "taken"
          /\ ~attempt_booking(appointments, callers,
                              PathContext(service, date, time)).success
          /\ create_new_appointment(appointments, callers,
                                    PathData(service, date, time)).status_code = 400

\* C2: when two calls reach the booking step for the same (date, time)
\* with checks and inserts interleaved, at most one appointment for that
\* (date, time) is ever persisted.
AtMostOnePerSlot ==
    \A i, j \in DOMAIN appointments :
        /\ i < j
        /\ appointments[i].status # "cancelled"
        /\ appointments[j].status # "cancelled"
        => ~(/\ appointments[i].appointment_date = appointments[j].appointment_date
             /\ appointments[i].appointment_time = appointments[j].appointment_time)

\* ------------------------------------------ the availability's properties

\* The elements of a sequence.
Range(seq) == {seq[k] : k \in DOMAIN seq}

\* A question put to get_available_slots, answered on the present ledger.
SlotsAsked == last.op = "slots"

\* C5: get_available_slots never returns a start time for which
\* check_time_slot_available(date, start, duration) is false on the ledger
\* the list was computed from.
ListedSlotsAreAvailable ==
    SlotsAsked =>
        \A k \in DOMAIN last.result.slots :
            check_time_slot_available(appointments, last.date, last.result.slots[k],
                                      last.duration)
                = [raised |-> FALSE, value |-> TRUE]

\* A list with slots on it, from a day on which an appointment took some
\* grid start away.
ListedSlotsAreAvailableWitness ==
    /\ SlotsAsked
    /\ Len(last.result.slots) > 0
    /\ "10:00" \notin Range(last.result.slots)
    /\ "09:00" \in Range(last.result.slots)
    /\ \E i \in DOMAIN appointments :
          /\ appointments[i].status = "scheduled"
          /\ appointments[i].appointment_date = last.date

\* The appointments that block the request (date, time, duration): not
\* cancelled, stored under that date, and with
\* NOT (requestedEnd <= existingStart OR requestedStart >= existingEnd).
Blocking(date, time, duration) ==
    {i \in DOMAIN appointments :
        /\ appointments[i].status # "cancelled"
        /\ appointments[i].appointment_date = date
        /\ ~(\/ ParseDateTime(date, time) + duration
                  <= ParseDateTime(date, appointments[i].appointment_time)
             \/ ParseDateTime(date, time)
                  >= ParseDateTime(date, appointments[i].appointment_time)
                       + appointments[i].duration_minutes)}

\* C6: check_time_slot_available(date, time, duration) returns false
\* exactly when an appointment that is not cancelled, on that date, overlaps
\* [time, time+duration) under the half-open test; a request that touches an
\* appointment only at an end point is available, and cancelled
\* appointments never block.  A date or time strptime refuses has no
\* interval: the call raises.
SlotAvailableIffNoOverlap ==
    last.op = "check_slot" =>
        IF ParseDateTime(last.date, last.time) = ParseError
        THEN last.result.raised
        ELSE /\ ~last.result.raised
             /\ last.result.value = FALSE <=>
                    Blocking(last.date, last.time, last.duration) # {}

\* A request found available that starts exactly where a scheduled
\* appointment ends, or ends exactly where it starts, on a date that also
\* holds a cancelled appointment over the requested interval.
SlotAvailableIffNoOverlapWitness ==
    /\ last.op = "check_slot"
    /\ last.result = [raised |-> FALSE, value |-> TRUE]
    /\ \E i \in DOMAIN appointments :
          /\ appointments[i].status = "scheduled"
          /\ appointments[i].appointment_date = last.date
          /\ \/ EndOf(appointments[i]) = ParseDateTime(last.date, last.time)
             \/ StartOf(appointments[i])
                   = ParseDateTime(last.date, last.time) + last.duration
    /\ \E i \in DOMAIN appointments :
          /\ appointments[i].status = "cancelled"
          /\ appointments[i].appointment_date = last.date
          /\ StartOf(appointments[i]) < ParseDateTime(last.date, last.time) + last.duration
          /\ ParseDateTime(last.date, last.time) < EndOf(appointments[i])

\* The hours string is an open/close range both ends of which parse.
WellFormedHours(working_hours) ==
    /\ Len(SplitHours(working_hours)) = 2
    /\ ParseClock12(SplitHours(working_hours)[1]) # ParseError
    /\ ParseClock12(SplitHours(working_hours)[2]) # ParseError

\* The grid starts open, open+30, open+60, ... a list of slots must hold:
\* those with start + duration <= close that are available.
GridStarts(date, working_hours, duration) ==
    LET open == ParseClock12(SplitHours(working_hours)[1])
        close == ParseClock12(SplitHours(working_hours)[2])
    IN {m \in {open + 30 * k : k \in 0..47} :
           /\ m + duration <= close
           /\ check_time_slot_available(appointments, date, FormatTime(m), duration)
                 = [raised |-> FALSE, value |-> TRUE]}

\* The ledger holds, on the date asked, an appointment from 10:00 to 10:30
\* and nothing else that is not cancelled.
OnlyTenToHalfPast(date) ==
    /\ \E i \in DOMAIN appointments :
          appointments[i].status # "cancelled" /\ appointments[i].appointment_date = date
    /\ \A i \in DOMAIN appointments :
          appointments[i].status # "cancelled" /\ appointments[i].appointment_date = date
          => /\ appointments[i].appointment_time = "10:00"
             /\ appointments[i].duration_minutes = 30

\* C7: for well-formed hours get_available_slots returns, strictly
\* ascending, exactly the starts open, open+30, ... with start + duration <=
\* close that are available; with hours 9:00 AM - 5:00 PM, a 10:00-10:30
\* appointment and 30 minutes it lists 09:00, 09:30, 10:30 and not 10:00.
SlotsAreTheFreeGrid ==
    SlotsAsked /\ WellFormedHours(last.working_hours) =>
        LET slots == last.result.slots IN
        /\ ~last.result.raised
        /\ \A k \in DOMAIN slots : slots[k] = FormatTime(ParseTime(slots[k]))
        /\ \A k \in 1..(Len(slots) - 1) : ParseTime(slots[k]) < ParseTime(slots[k + 1])
        /\ {ParseTime(slots[k]) : k \in DOMAIN slots}
              = GridStarts(last.date, last.working_hours, last.duration)
        /\ /\ last.working_hours = "9:00 AM - 5:00 PM"
           /\ last.duration = 30
           /\ OnlyTenToHalfPast(last.date)
           => /\ {"09:00", "09:30", "10:30"} \subseteq Range(slots)
              /\ "10:00" \notin Range(slots)

\* The scenario of the example, asked and answered; the last slot of the
\* list ends exactly at closing time.
SlotsAreTheFreeGridWitness ==
    /\ SlotsAsked
    /\ last.working_hours = "9:00 AM - 5:00 PM"
    /\ last.duration = 30
    /\ OnlyTenToHalfPast(last.date)
    /\ Len(last.result.slots) = 15
    /\ last.result.slots[15] = "16:30"

\* C8: get_available_slots(date, "Closed", d) returns the empty list for
\* every date, every duration and every ledger.
ClosedDayHasNoSlots ==
    SlotsAsked /\ last.working_hours = "Closed" =>
        last.result = [raised |-> FALSE, slots |-> <<>>]

\* "Closed" asked for a date and duration that have free slots under the
\* Monday hours.
ClosedDayHasNoSlotsWitness ==
    /\ SlotsAsked
    /\ last.working_hours = "Closed"
    /\ Len(appointments) > 0
    /\ GridStarts(last.date, "9:00 AM - 5:00 PM", last.duration) # {}

\* An hours string that is neither "Closed" nor a range that parses.
Malformed(working_hours) ==
    working_hours # "Closed" /\ ~WellFormedHours(working_hours)

\* C9: for a malformed hours string get_available_slots returns the empty
\* list and raises nothing to its caller.
MalformedHoursHaveNoSlots ==
    SlotsAsked /\ Malformed(last.working_hours) =>
        last.result = [raised |-> FALSE, slots |-> <<>>]

\* A range in 24-hour notation, which strptime("%I:%M %p") refuses, asked
\* for a date on which the Monday hours have free slots.
MalformedHoursHaveNoSlotsWitness ==
    /\ SlotsAsked
    /\ last.working_hours = "09:00 - 17:00"
    /\ Malformed(last.working_hours)
    /\ GridStarts(last.date, "9:00 AM - 5:00 PM", last.duration) # {}

\* ------------------------------------------------- the merge's properties

\* The four slots of a context with the extraction field each is fed from.
SlotValue(context, slot) ==
    CASE slot = "name" -> context.caller_name
      [] slot = "service" -> context.requested_service
      [] slot = "date" -> context.requested_date
      [] OTHER -> context.requested_time
Extracted(extracted, slot) ==
    CASE slot = "name" -> extracted.name
      [] slot = "service" -> extracted.service
      [] slot = "date" -> extracted.date
      [] OTHER -> extracted.time
SlotNames == {"name", "service", "date", "time"}

\* The context a turn of the call holds when the extraction arrives.
ContextBeforeMerge ==
    PreMergeContext(conversation_states, callers, "CA1", PhoneOf("CA1"),
                    "I would like to book")

\* C10: within a turn the merge of the extraction never replaces a known
\* slot with null nor removes it: a slot changes only when the extraction
\* carries a value for it, and a slot the extraction is null for stays.
MergeKeepsKnownSlots ==
    \A extracted \in TurnExtractions \ {NonObject} :
        LET before == ContextBeforeMerge
            after == MergeExtracted(before, extracted)
        IN /\ DOMAIN after = DOMAIN before
           /\ \A slot \in SlotNames :
                 /\ SlotValue(before, slot) # None => SlotValue(after, slot) # None
                 /\ SlotValue(after, slot) # SlotValue(before, slot) =>
                       /\ Extracted(extracted, slot) # None
                       /\ SlotValue(after, slot) = Extracted(extracted, slot)
                 /\ Extracted(extracted, slot) = None =>
                       SlotValue(after, slot) = SlotValue(before, slot)

\* The stored context of the call knows a service and a date: the turn
\* that brought the later of the two was null for the earlier.
MergeKeepsKnownSlotsWitness ==
    /\ "CA1" \in DOMAIN conversation_states
    /\ conversation_states["CA1"].requested_service = "Haircut"
    /\ conversation_states["CA1"].requested_date = "2025-01-13"
    /\ Len(conversation_states["CA1"].messages) >= 4

\* -------------------------------------------------- the turn's properties

\* The step is the turn of call CA1 with this extraction, these words of
\* the caller and this answer of the provider.
TurnTaken(extracted, talk) ==
    SpeechInput("CA1", PhoneOf("CA1"), talk[1], extracted, talk[2])

\* The context generate_response works with in that turn, after the merge.
ContextUsed(extracted, talk) ==
    TurnContext(conversation_states, callers, "CA1", PhoneOf("CA1"), talk[1],
                extracted).context

\* The turn ends the call: the reply came and both sides said goodbye.
CallEnds(talk) == talk[2] # ProviderError /\ should_end_call(talk[1], talk[2])

\* C11: across the turns of one call, also when the reply fails, a slot set
\* during a turn is still set in the context every later turn of the call
\* works with: what a turn that does not end the call holds after its merge,
\* the next turn finds when it loads the context.
SetSlotsStaySet ==
    [][\A extracted \in TurnExtractions \ {NonObject}, talk \in TurnTalk :
          TurnTaken(extracted, talk) /\ ~CallEnds(talk) =>
              \A slot \in SlotNames :
                  SlotValue(ContextUsed(extracted, talk), slot) # None =>
                      SlotValue(PreMergeContext(conversation_states', callers', "CA1",
                                                PhoneOf("CA1"), "I would like to book"),
                                slot) # None]_vars

\* What the turn of call CA1 with this extraction and this talk does to the
\* tables as they stand, and what it answers.
TurnOf(extracted, talk) ==
    handle_speech_input(appointments, callers, call_logs, conversation_states,
                        "CA1", PhoneOf("CA1"), talk[1], extracted, talk[2])

\* Name, service, date and time are all present in the merged context and
\* this turn's extraction is confirming.
ReadyToBook(extracted, talk) ==
    /\ \A slot \in SlotNames :
          SlotValue(ContextUsed(extracted, talk), slot) \notin {None, ""}
    /\ extracted.is_confirming = TRUE

ThreeSlots == [EmptyExtraction EXCEPT !.name = "Ann", !.service = "Haircut",
                                      !.date = "2025-01-13"]
TimeOnly == [EmptyExtraction EXCEPT !.time = "09:00"]
TimeConfirmed == [EmptyExtraction EXCEPT !.time = "09:00", !.is_confirming = TRUE]
ConfirmOnly == [EmptyExtraction EXCEPT !.is_confirming = TRUE]
PlainTalk == <<"I would like to book", "Certainly.">>

\* C12: a turn attempts a booking if and only if the four slots are
\* present in the merged context and this turn's extraction is confirming;
\* the context's state field plays no part, and a turn for which the
\* condition is false creates no appointment.
BookingIffReady ==
    \A extracted \in DialogExtractions \ {NonObject},
       talk \in {PlainTalk, <<"Thanks, bye", ProviderError>>} :
        /\ TurnOf(extracted, talk).last.booking # "none"
              <=> ReadyToBook(extracted, talk)
        /\ ~ReadyToBook(extracted, talk) =>
              TurnOf(extracted, talk).appointments = appointments
        /\ \A state \in ConversationState :
              should_finalize_booking(
                  [ContextUsed(extracted, talk) EXCEPT !.state = state], extracted)
                  <=> ReadyToBook(extracted, talk)

\* A call that knows name, service and date but no time: the caller's
\* confirmation alone books nothing, a confirmation that brings the time
\* books; and a call that knows all four, where an unconfirmed turn books
\* nothing.
BookingIffReadyWitness ==
    /\ last.op = "speech"
    /\ "CA1" \in DOMAIN conversation_states
    /\ conversation_states["CA1"].requested_service = "Haircut"
    /\ conversation_states["CA1"].requested_date = "2025-01-13"
    /\ conversation_states["CA1"].requested_time = None
    /\ TurnOf(ConfirmOnly, PlainTalk).last.booking = "none"
    /\ TurnOf(TimeOnly, PlainTalk).last.booking = "none"
    /\ TurnOf(TimeConfirmed, PlainTalk).last.booking = "success"
    /\ Len(TurnOf(TimeConfirmed, PlainTalk).appointments) = Len(appointments) + 1

\* The texts of the model that contain a farewell marker ("bye", "thanks",
\* "goodbye").
SaysFarewell == {"Thanks, bye", "You're welcome, goodbye!"}

\* C13: the turn returns should_end_call = true only if the caller's
\* utterance contains a farewell marker and the generated reply contains
\* one too; a farewell on one side only, or on neither, gives false.
EndsOnlyOnMutualFarewell ==
    \A extracted \in {EmptyExtraction, ThreeSlots, ConfirmOnly}, talk \in DialogTalk :
        /\ TurnOf(extracted, talk).last.should_end_call =>
              talk[1] \in SaysFarewell /\ talk[2] \in SaysFarewell
        /\ talk[1] \notin SaysFarewell \/ talk[2] \notin SaysFarewell =>
              TurnOf(extracted, talk).last.should_end_call = FALSE

\* A call just ended by a farewell of both sides, where a farewell of the
\* caller alone or of the reply alone would not have ended it.
EndsOnlyOnMutualFarewellWitness ==
    /\ last.op = "speech"
    /\ last.raised = FALSE
    /\ last.should_end_call = TRUE
    /\ last.text \in SaysFarewell
    /\ TurnOf(EmptyExtraction, <<"Thanks, bye", "Certainly.">>).last.should_end_call
          = FALSE
    /\ TurnOf(EmptyExtraction,
              <<"I would like to book", "You're welcome, goodbye!">>).last.should_end_call
          = FALSE

\* C14: when the provider fails at the reply, the turn returns the fixed
\* apology with should_end_call = false, whatever the caller said, a
\* farewell included.
ReplyFailureApologises ==
    \A extracted \in DialogExtractions \ {NonObject},
       caller_input \in {"I would like to book", "Thanks, bye"} :
        LET answer == TurnOf(extracted, <<caller_input, ProviderError>>).last IN
        /\ answer.raised = FALSE
        /\ answer.text
              = "I apologize, I'm having a bit of trouble. Could you please repeat that?"
        /\ answer.should_end_call = FALSE

\* The apology was just returned, and the call goes on; it would have been
\* returned to a caller saying goodbye as well.
ReplyFailureApologisesWitness ==
    /\ last.op = "speech"
    /\ last.raised = FALSE
    /\ last.text = "I apologize, I'm having a bit of trouble. Could you please repeat that?"
    /\ last.should_end_call = FALSE
    /\ TurnOf(EmptyExtraction, <<"Thanks, bye", ProviderError>>).last = last

\* The slots of the context the turn loaded, before the extraction arrived.
SlotsBefore(talk) ==
    LET before == PreMergeContext(conversation_states, callers, "CA1",
                                  PhoneOf("CA1"), talk[1])
    IN [slot \in SlotNames |-> SlotValue(before, slot)]

TurnAlwaysReturns ==
    last.op = "speech" =>
        /\ last.raised = FALSE
        /\ last.should_end_call \in BOOLEAN

ManicureConfirmed == [EmptyExtraction EXCEPT !.service = "Manicure",
                                             !.is_confirming = TRUE]
SlashDateConfirmed == [EmptyExtraction EXCEPT !.date = "13/01/2025",
                                              !.is_confirming = TRUE]

\* Why the booking of a context cannot succeed: its service is none of the
\* configured ones, its date is not YYYY-MM-DD, or a stored appointment
\* blocks the half hour asked for.
CannotBook(context) ==
    \/ context.requested_service \notin {"Haircut", "haircut", "Massage", "massage"}
    \/ context.requested_date = "13/01/2025"
    \/ Blocking(context.requested_date, context.requested_time, 30) # {}

\* The appointment counters of a callers table, by phone number.
CountersOf(cs) ==
    [phone \in {PhoneOf(sid) : sid \in CallSids} |->
        IF CallerId(cs, phone) = 0 THEN 0
        ELSE cs[CallerId(cs, phone)].total_appointments]

\* C17: a booking attempt that fails (unknown service, malformed date,
\* slot conflict, an exception while booking) creates no appointment and
\* changes no caller's appointment counter, and the turn goes on to the
\* reply instead of aborting.
FailedBookingChangesNothing ==
    \A extracted \in DialogExtractions \ {NonObject}, talk \in DialogTalk :
        LET turn == TurnOf(extracted, talk) IN
        /\ ReadyToBook(extracted, talk) /\ CannotBook(ContextUsed(extracted, talk))
              => turn.last.booking = "failure"
        /\ turn.last.booking = "failure" =>
              /\ turn.appointments = appointments
              /\ CountersOf(turn.callers) = CountersOf(callers)
              /\ turn.last.raised = FALSE
              /\ turn.last.text = IF talk[2] = ProviderError THEN Apology ELSE talk[2]

\* One appointment is booked and the turn just taken failed to book the
\* same half hour again; an unknown service and a date in another format
\* would fail from here as well.
FailedBookingChangesNothingWitness ==
    /\ last.op = "speech"
    /\ last.raised = FALSE
    /\ last.booking = "failure"
    /\ Len(appointments) = 1
    /\ CountersOf(callers)[PhoneOf("CA1")] = 1
    /\ TurnOf(ConfirmOnly, PlainTalk).last.booking = "failure"
    /\ TurnOf(ManicureConfirmed, PlainTalk).last.booking = "failure"
    /\ TurnOf(SlashDateConfirmed, PlainTalk).last.booking = "failure"

\* C18: create_appointment is atomic: in every reachable state, also after
\* a failure between the INSERT and the counter UPDATE, each caller's
\* total_appointments is the number of appointment rows stored with that
\* caller's id.
CounterMatchesAppointments ==
    \A caller_id \in DOMAIN callers :
        callers[caller_id].total_appointments
            = Cardinality({i \in DOMAIN appointments :
                              appointments[i].caller_id = caller_id})

\* A POST /appointments has just failed inside create_appointment while
\* two callers hold appointments.
CounterMatchesAppointmentsWitness ==
    /\ last.op = "create"
    /\ last.status_code = 500
    /\ Len(callers) = 2
    /\ \A caller_id \in DOMAIN callers : callers[caller_id].total_appointments = 1
    /\ Len(appointments) = 2

\* C19: every appointment is created with status scheduled, and the status
\* of an existing appointment changes in no step other than an explicit
\* status update: not in a turn of a call, an availability query, a
\* greeting or the end of a call.
StatusChangesOnlyByUpdate ==
    [][/\ \A i \in DOMAIN appointments' \ DOMAIN appointments :
             appointments'[i].status = "scheduled"
       /\ \A i \in DOMAIN appointments :
             /\ i \in DOMAIN appointments'
             /\ appointments'[i].status # appointments[i].status =>
                   \E id \in StatusIds, st \in StatusTexts :
                       UpdateAppointment(id, st)]_vars

\* A turn of a call has just booked a second appointment beside one whose
\* status an update had changed before.
StatusChangesOnlyByUpdateWitness ==
    /\ last.op = "speech"
    /\ last.booking = "success"
    /\ Len(appointments) = 2
    /\ appointments[1].status = "cancelled"
    /\ appointments[2].status = "scheduled"

\* C20: a status update succeeds for every pair of current and new status
\* among the five, sets the status of exactly that appointment to the new
\* one, and leaves every other field of it, every other appointment and
\* every caller unchanged.
UpdateSetsExactlyOneStatus ==
    [][/\ \A id \in DOMAIN appointments, st \in AppointmentStatus :
             update_appointment_status(appointments, id, st)
                 = [appointments EXCEPT ![id].status = st]
       /\ \A id \in DOMAIN appointments, st \in AppointmentStatus :
             UpdateAppointment(id, st) =>
                 /\ last'.status_code = 200
                 /\ appointments' = [appointments EXCEPT ![id].status = st]
                 /\ callers' = callers
                 /\ conversation_states' = conversation_states
                 /\ call_logs' = call_logs]_vars

\* An update has just been answered 200 on a ledger where one appointment is
\* back at scheduled beside one that is no_show, and both callers have their
\* appointment counted.
UpdateSetsExactlyOneStatusWitness ==
    /\ last.op = "update"
    /\ last.status_code = 200
    /\ Len(appointments) = 2
    /\ appointments[1].status = "no_show"
    /\ appointments[2].status = "scheduled"
    /\ Len(callers) = 2
    /\ \A i \in DOMAIN callers : callers[i].total_appointments = 1

\* C21: get_appointments_for_date(date) returns exactly the stored
\* appointments of that date that are not cancelled, each once, in
\* ascending order of their appointment time.
ListedByDateInTimeOrder ==
    last.op = "list" =>
        LET rows == last.appointments IN
        /\ {rows[k].id : k \in DOMAIN rows}
              = {appointments[i].id : i \in
                    {j \in DOMAIN appointments :
                        /\ appointments[j].appointment_date = last.date
                        /\ appointments[j].status # "cancelled"}}
        /\ \A k \in DOMAIN rows : rows[k] = appointments[rows[k].id]
        /\ \A k, l \in DOMAIN rows :
              k < l => /\ rows[k].id # rows[l].id
                       /\ ParseTime(rows[k].appointment_time)
                             <= ParseTime(rows[l].appointment_time)

\* ----------------------------------------------- the slot store's properties

\* C22: over the saves of one call_sid with no delete in between, the
\* stored created_at stays that of the first save, while the other columns
\* take the values of the latest save.
CreatedAtPreserved ==
    \A call_sid \in CallSids, first \in StoreContexts, latest \in StoreContexts,
       now \in ClockNow(conversation_states) :
        LET once == InsertOrReplace(conversation_states, call_sid, first, now)
        IN \A later \in ClockNow(once) :
            LET twice == InsertOrReplace(once, call_sid, latest, later) IN
            /\ once[call_sid].created_at
                  = IF call_sid \in DOMAIN conversation_states
                    THEN conversation_states[call_sid].created_at ELSE now
            /\ twice[call_sid].created_at = once[call_sid].created_at
            /\ twice[call_sid].updated_at = later
            /\ get_conversation_state(twice, call_sid) = latest
            /\ \A c \in DOMAIN conversation_states :
                  conversation_states[c].created_at <= conversation_states[c].updated_at

\* A call was saved again later than it was created, with other content
\* than a fresh context: the row is older than its last update.
CreatedAtPreservedWitness ==
    /\ last.op = "put"
    /\ last.call_sid \in DOMAIN conversation_states
    /\ conversation_states[last.call_sid].created_at = 1
    /\ conversation_states[last.call_sid].updated_at = 3
    /\ conversation_states[last.call_sid].requested_service = "Haircut"

\* What a read answers for a call without a row.
Absent(result) == result = [row |-> None]

\* C23: the slot store's contract: a read after a save returns the saved
\* caller phone, state, four slots and messages; a delete of an absent or
\* already deleted call succeeds and changes nothing; a read after a delete
\* answers absent; and a save or delete of one call never changes the
\* entry of another.
StoreContract ==
    \A call_sid \in CallSids, c \in StoreContexts,
       now \in ClockNow(conversation_states) :
        LET saved == InsertOrReplace(conversation_states, call_sid, c, now)
            read == get_conversation_state(saved, call_sid)
            deleted == delete_conversation_state(saved, call_sid)
            dropped == delete_conversation_state(conversation_states, call_sid)
        IN /\ ~Absent(read)
           /\ read.caller_phone = c.caller_phone
           /\ read.state = c.state
           /\ \A slot \in SlotNames : SlotValue(read, slot) = SlotValue(c, slot)
           /\ read.messages = c.messages
           /\ Absent(get_conversation_state(deleted, call_sid))
           /\ Absent(get_conversation_state(dropped, call_sid))
           /\ delete_conversation_state(deleted, call_sid) = deleted
           /\ call_sid \notin DOMAIN conversation_states => dropped = conversation_states
           /\ \A other \in CallSids \ {call_sid} :
                 /\ other \in DOMAIN saved <=> other \in DOMAIN conversation_states
                 /\ other \in DOMAIN dropped <=> other \in DOMAIN conversation_states
                 /\ other \in DOMAIN conversation_states =>
                       /\ saved[other] = conversation_states[other]
                       /\ dropped[other] = conversation_states[other]

\* One call has just been deleted and a read of it would answer absent,
\* while the other call's row, with its slots and messages, is in the store.
StoreContractWitness ==
    /\ last.op = "delete"
    /\ last.call_sid = "CA1"
    /\ Absent(get_conversation_state(conversation_states, "CA1"))
    /\ "CA2" \in DOMAIN conversation_states
    /\ ~Absent(get_conversation_state(conversation_states, "CA2"))
    /\ Len(get_conversation_state(conversation_states, "CA2").messages) = 2

StoredMessages(states) ==
    IF "CA1" \in DOMAIN states THEN states["CA1"].messages ELSE <<>>

\* C25: the stored messages of a call are append-only and complete: a turn
\* that does not end the call leaves stored what was stored before it,
\* followed by the caller's utterance and by the reply the turn returned.
MessagesAppendOnly ==
    \A extracted \in DialogExtractions \ {NonObject}, talk \in DialogTalk :
        ~CallEnds(talk) =>
            LET turn == TurnOf(extracted, talk) IN
            StoredMessages(turn.conversation_states)
                = StoredMessages(conversation_states)
                    \o <<[role |-> "user", content |-> talk[1]],
                         [role |-> "assistant", content |-> turn.last.text]>>

\* ------------------------------------------------- the callers' properties

\* The calls received so far from a phone number: one call log row each.
CallsFrom(phone) ==
    {call_sid \in DOMAIN call_logs : call_logs[call_sid].caller_phone = phone}

\* C26: after the greeting of a call returns, the store holds a context
\* for the call whose messages are exactly the one greeting returned, and
\* the greeting is the personalised one if and only if the caller has a
\* known name and at least one earlier call.
GreetingPersonalIffHistory ==
    [][\A call_sid \in CallSids :
          IncomingCall(call_sid, GreetPhone) /\ ~last'.raised =>
              /\ call_sid \in DOMAIN conversation_states'
              /\ conversation_states'[call_sid].messages
                    = <<[role |-> "assistant", content |-> last'.text]>>
              /\ last'.text = "welcome back"
                    <=> /\ NameOf(callers, GreetPhone) \notin {None, ""}
                        /\ CallsFrom(GreetPhone) # {}]_vars

\* C27: a caller's record is created on first contact and total_calls is
\* incremented once per call: after any sequence of greetings, turns and
\* direct bookings it equals the number of distinct calls received from
\* the caller's phone number.
TotalCallsCountsCalls ==
    \A i \in DOMAIN callers :
        callers[i].total_calls = Cardinality(CallsFrom(callers[i].phone_number))

\* Extractions that carry a name: one that is new to the caller, one that
\* replaces a known name, and the empty text.
NamedExtractions ==
    {[EmptyExtraction EXCEPT !.name = "Ann"],
     [EmptyExtraction EXCEPT !.name = "Bob"],
     [EmptyExtraction EXCEPT !.name = "Bob", !.service = "Haircut"]}
EmptyNamed == [EmptyExtraction EXCEPT !.name = ""]

\* After the turn the caller record of the call's phone number and the
\* context the turn works with both carry the extraction's name, and so
\* does the context the next turn starts from.
NameReaches(extracted, talk) ==
    LET turn == TurnOf(extracted, talk) IN
    /\ NameOf(turn.callers, PhoneOf("CA1")) = extracted.name
    /\ ContextUsed(extracted, talk).caller_name = extracted.name
    /\ ~CallEnds(talk) =>
          PreMergeContext(turn.conversation_states, turn.callers, "CA1",
                          PhoneOf("CA1"), "I would like to book").caller_name
              = extracted.name

\* C28 (as stated): after any turn whose extraction carries a non-null
\* name n, the caller record and the turn's context have the name n,
\* whether or not the reply fails.
NonNullNameReachesCaller ==
    \A extracted \in NamedExtractions \cup {EmptyNamed}, talk \in DialogTalk :
        NameReaches(extracted, talk)

\* C28: after any turn whose extraction carries a name n that is neither
\* null nor empty, the caller record of the call's phone number and the
\* turn's context have the name n, whether or not the reply fails.
NameReachesCaller ==
    \A extracted \in NamedExtractions, talk \in DialogTalk :
        NameReaches(extracted, talk)

\* The turn just taken brought the name and its reply failed: the caller
\* record has the name although no context was saved; a turn bringing
\* another name would replace it.
NameReachesCallerWitness ==
    /\ last.op = "speech"
    /\ last.raised = FALSE
    /\ last.text = Apology
    /\ "CA1" \notin DOMAIN conversation_states
    /\ NameOf(callers, PhoneOf("CA1")) = "Ann"
    /\ NameOf(TurnOf([EmptyExtraction EXCEPT !.name = "Bob"],
                     <<"I would like to book", ProviderError>>).callers,
              PhoneOf("CA1")) = "Bob"

\* The four slots of the context a turn of the call would work with on the
\* given tables.
SlotsOfTurn(states, cs, call_sid, caller_phone, extracted) ==
    LET context == TurnContext(states, cs, call_sid, caller_phone,
                               "I would like to book", extracted).context
    IN [slot \in SlotNames |-> SlotValue(context, slot)]

\* C29: a turn of one call never reads or changes the context of another
\* call, and it can affect the slots or the outcome of the other call's
\* turns only through the appointments: when it leaves the appointments as
\* they were, the next turn of another call in progress works with the same
\* slots as before.
TurnsShareOnlyLedger ==
    [][\A x \in CallSids, e \in GreetExtractions :
          SpeechInput(x, GreetPhone, "I would like to book", e, "Certainly.") =>
              \A y \in CallSids \ {x} :
                  /\ y \in DOMAIN conversation_states' <=> y \in DOMAIN conversation_states
                  /\ y \in DOMAIN conversation_states =>
                        conversation_states'[y] = conversation_states[y]
                  /\ (/\ appointments' = appointments
                      /\ y \in DOMAIN conversation_states
                      /\ y \in DOMAIN call_logs
                      /\ ~call_logs[y].ended) =>
                        \A ey \in GreetExtractions :
                            SlotsOfTurn(conversation_states', callers', y,
                                        GreetPhone, ey)
                                = SlotsOfTurn(conversation_states, callers, y,
                                              GreetPhone, ey)]_vars

\* ---------------------------------------------------------------------
\* get_or_create_caller run by two requests at once: each request has its
\* own connection, so the SELECT of one and the INSERT or UPDATE of the
\* other interleave freely.
\* ---------------------------------------------------------------------

\* The SELECT of get_or_create_caller: the row the request holds afterwards.
select_caller(cs, phone_number) ==
    LET id == CallerId(cs, phone_number) IN
    IF id # 0
    THEN [found |-> TRUE, id |-> id, phone_number |-> phone_number,
          name |-> cs[id].name, total_calls |-> cs[id].total_calls]
    ELSE [found |-> FALSE, id |-> 0, phone_number |-> phone_number,
          name |-> None, total_calls |-> 0]

\* An INSERT into a callers table whose phone_number column is not UNIQUE.
insert_duplicate(cs, phone_number, name) ==
    [raised |-> FALSE,
     callers |-> Append(cs, [phone_number |-> phone_number, name |-> name,
                             total_calls |-> 1, total_appointments |-> 0])]

\* The INSERT of get_or_create_caller: phone_number is declared UNIQUE, so
\* the statement raises when a row of that number is already there.
insert_caller(cs, phone_number, name) ==
    IF \E i \in DOMAIN cs : cs[i].phone_number = phone_number
    THEN [raised |-> TRUE, callers |-> cs]
    ELSE [raised |-> FALSE,
          callers |-> Append(cs, [phone_number |-> phone_number, name |-> name,
                                  total_calls |-> 1, total_appointments |-> 0])]

\* The rest of get_or_create_caller after its SELECT: the UPDATE of the row
\* found, or the INSERT of a new one; the Caller object it returns is built
\* from the row that was selected.
write_caller(cs, selected) ==
    IF selected.found
    THEN [raised |-> FALSE,
          callers |-> [cs EXCEPT ![selected.id].total_calls = @ + 1],
          caller |-> [name |-> selected.name,
                      total_calls |-> selected.total_calls + 1]]
    ELSE LET inserted == insert_caller(cs, selected.phone_number, None) IN
         [raised |-> inserted.raised,
          callers |-> inserted.callers,
          caller |-> [name |-> None, total_calls |-> 1]]

\* POST /voice/incoming up to the SELECT of get_or_create_caller: the call
\* is logged and the request holds the row it selected.
IncomingBegin(call_sid, caller_phone) ==
    /\ call_sid \notin DOMAIN pending
    /\ IF call_sid \in DOMAIN call_logs
       THEN /\ last' = [op |-> "incoming", raised |-> TRUE]
            /\ UNCHANGED <<appointments, callers, conversation_states,
                           call_logs, pending>>
       ELSE /\ call_logs' = create_call_log(call_logs, call_sid, caller_phone)
            /\ pending' = [c \in DOMAIN pending \cup {call_sid} |->
                              IF c = call_sid
                              THEN select_caller(callers, caller_phone)
                              ELSE pending[c]]
            /\ last' = [op |-> "select", raised |-> FALSE]
            /\ UNCHANGED <<appointments, callers, conversation_states>>

\* POST /voice/incoming from the write of get_or_create_caller on: the
\* context is initialised and the greeting returned, unless the write
\* raised, in which case the endpoint answers with its error message.
IncomingEnd(call_sid) ==
    /\ call_sid \in DOMAIN pending
    /\ LET written == write_caller(callers, pending[call_sid])
           caller == written.caller
           context0 == FreshContext(pending[call_sid].phone_number)
           context1 == IF Truthy(caller.name)
                       THEN [context0 EXCEPT !.caller_name = caller.name]
                       ELSE context0
           greeting == IF Truthy(caller.name) /\ caller.total_calls > 1
                       THEN "welcome back" ELSE "thank you for calling"
           context2 == [context1 EXCEPT !.messages =
                           Append(@, [role |-> "assistant", content |-> greeting])]
       IN /\ pending' = [c \in DOMAIN pending \ {call_sid} |-> pending[c]]
          /\ callers' = written.callers
          /\ IF written.raised
             THEN /\ last' = [op |-> "incoming", raised |-> TRUE]
                  /\ UNCHANGED conversation_states
             ELSE /\ conversation_states' =
                        save_conversation_state(
                            save_conversation_state(conversation_states,
                                                    call_sid, context1),
                            call_sid, context2)
                  /\ last' = [op |-> "incoming", raised |-> FALSE,
                              text |-> greeting]
          /\ UNCHANGED <<appointments, call_logs>>

CallerPhones == {PhoneOf(c) : c \in CallSids}

CallerExtractions ==
    {EmptyExtraction, [EmptyExtraction EXCEPT !.name = "Ann"]}

CallerBounded ==
    \A i \in DOMAIN callers : callers[i].total_calls <= MaxTurns

NextCaller ==
    \/ \E c \in CallSids, phone \in CallerPhones :
          IncomingBegin(c, phone) /\ CallerBounded'
    \/ \E c \in CallSids : IncomingEnd(c) /\ CallerBounded'
    \/ \E c \in CallSids, e \in CallerExtractions :
          /\ c \in DOMAIN conversation_states
          /\ SpeechInput(c, conversation_states[c].caller_phone,
                         "I would like to book", e, "Certainly.")
          /\ CallerBounded'
    \/ \E c \in CallSids : CallStatus(c, "completed")

SpecCaller == Init /\ [][NextCaller]_vars

\* C30: at most one Caller record exists per phone number, also when two
\* calls from the same unknown number run get-or-create at the same time.
OneCallerPerPhone ==
    \A i, j \in DOMAIN callers :
        callers[i].phone_number = callers[j].phone_number => i = j

\* Two calls selected no row for the same number, one has inserted its row
\* and the other's insert was refused.
OneCallerPerPhoneWitness ==
    /\ last = [op |-> "incoming", raised |-> TRUE]
    /\ \E c \in CallSids :
          /\ c \in DOMAIN conversation_states
          /\ \E d \in CallSids \ {c} :
                /\ d \in DOMAIN call_logs
                /\ d \notin DOMAIN conversation_states
                /\ d \notin DOMAIN pending
                /\ call_logs[d].caller_phone = conversation_states[c].caller_phone
    /\ Len(callers) = 1

\* The starts open, open+30, ... of the hours that leave room for the
\* duration before closing time.
GridOf(working_hours, duration) ==
    LET open == ParseClock12(SplitHours(working_hours)[1])
        close == ParseClock12(SplitHours(working_hours)[2])
    IN {m \in {open + SlotStep * k : k \in 0..47} : m + duration <= close}

\* A direct booking of the start time for a service of the duration.
SlotData(date, time, service_name) ==
    [caller_name |-> "Ann", caller_phone |-> PhoneOf("CA1"),
     service_name |-> service_name, appointment_date |-> date,
     appointment_time |-> time]

\* C31: get_available_slots answers from the ledger as it stands at the
\* invocation, whatever was booked or cancelled since the one before: a grid
\* start whose interval an appointment that is not cancelled overlaps is not
\* returned, and a grid start all of whose conflicting appointments are
\* cancelled is returned and a booking of it is accepted.
SlotsFollowLedger ==
    (/\ SlotsAsked
     /\ WellFormedHours(last.working_hours)
     /\ ParseDate(last.date) # ParseError) =>
        \A m \in GridOf(last.working_hours, last.duration) :
            LET time == FormatTime(m) IN
            IF Blocking(last.date, time, last.duration) # {}
            THEN time \notin Range(last.result.slots)
            ELSE /\ time \in Range(last.result.slots)
                 /\ \A k \in DOMAIN Services :
                       Services[k].duration = last.duration =>
                           create_new_appointment(appointments, callers,
                               SlotData(last.date, time, Services[k].name)).status_code
                               = 200

\* The 10:00 appointment was cancelled, 10:00 was booked again, and the
\* list asked for after that leaves 10:00 out.
SlotsFollowLedgerWitness ==
    /\ SlotsAsked
    /\ last.working_hours = "9:00 AM - 5:00 PM"
    /\ last.duration = 30
    /\ Len(appointments) = 2
    /\ appointments[1].status = "cancelled"
    /\ appointments[2].status = "scheduled"
    /\ appointments[1].appointment_date = last.date
    /\ appointments[2].appointment_date = last.date
    /\ appointments[1].appointment_time = appointments[2].appointment_time
    /\ appointments[2].appointment_time \notin Range(last.result.slots)
    /\ "09:30" \in Range(last.result.slots)

\* C32: in every turn in which an appointment is created the caller is
\* given the model's reply, never the fixed apology, and the context stored
\* for the call records the turn (unless the turn ended the call, which
\* deletes the context).
BookedTurnGetsModelReply ==
    (/\ last.op = "speech"
     /\ ~last.raised
     /\ last.booking = "success") =>
        /\ last.text # Apology
        /\ \/ last.should_end_call
           \/ /\ "CA1" \in DOMAIN conversation_states
              /\ LET messages == conversation_states["CA1"].messages IN
                 /\ Len(messages) >= 2
                 /\ messages[Len(messages) - 1].role = "user"
                 /\ messages[Len(messages)]
                       = [role |-> "assistant", content |-> last.text]

\* SpecRepeat: one call that asks for either service at nine, in both
\* spellings of the hour, and confirms again and again.

RepeatExtractions ==
    {EmptyExtraction, [EmptyExtraction EXCEPT !.is_confirming = TRUE]}
    \cup {[json |-> "object", name |-> "Ann", service |-> s, date |-> "2025-01-13",
           time |-> t, is_confirming |-> c] :
             s \in {"Haircut", "Massage"}, t \in {"09:00", "9:00"},
             c \in BOOLEAN}

RepeatBounded ==
    /\ Len(appointments) <= MaxAppointments
    /\ \A i \in DOMAIN callers : callers[i].total_calls <= MaxTurns

NextRepeat ==
    \E e \in RepeatExtractions, reply \in {"Certainly.", ProviderError} :
        /\ SpeechInput("CA1", PhoneOf("CA1"), "I would like to book", e, reply)
        /\ RepeatBounded'

SpecRepeat == Init /\ [][NextRepeat]_vars

\* The call has an appointment for exactly the slots of the context.
BookedAlready(appts, context) ==
    \E i \in DOMAIN appts :
        /\ appts[i].caller_phone = context.caller_phone
        /\ FindService(context.requested_service) # 0
        /\ appts[i].service_name
              = Services[FindService(context.requested_service)].name
        /\ appts[i].appointment_date = context.requested_date
        /\ appts[i].appointment_time = context.requested_time

HoursDates == {"2025-01-13", "2025-01-19"}
HoursTimes == {"09:00", "16:45", "20:00"}

HoursExtractions ==
    {[json |-> "object", name |-> "Ann", service |-> "Haircut", date |-> d,
      time |-> t, is_confirming |-> TRUE] : d \in HoursDates, t \in HoursTimes}

HoursCreates ==
    {[caller_name |-> "Bob", caller_phone |-> PhoneOf("CA2"), service_name |-> s,
      appointment_date |-> d, appointment_time |-> t] :
        s \in {"Haircut", "Massage"}, d \in HoursDates, t \in HoursTimes}

NextHours ==
    \/ \E e \in HoursExtractions :
          /\ SpeechInput("CA1", PhoneOf("CA1"), "I would like to book", e,
                         "Certainly.")
          /\ LedgerBounded'
    \/ \E data \in HoursCreates : CreateNewAppointment(data) /\ LedgerBounded'

SpecHours == Init /\ [][NextHours]_vars

\* The appointment lies within the hours configured for its weekday.
WithinHours(apt) ==
    LET working_hours == WorkingHours[DayName(ParseDate(apt.appointment_date))]
        open == ParseClock12(SplitHours(working_hours)[1])
        close == ParseClock12(SplitHours(working_hours)[2])
        start == ParseTime(apt.appointment_time)
    IN /\ Lower(working_hours) # "closed"
       /\ open <= start
       /\ start + apt.duration_minutes <= close

\* C34: every appointment created by the voice flow or by POST
\* /appointments lies within the business hours of its weekday: never on a
\* closed day, and with [start, start+duration) inside [open, close].
AppointmentsWithinBusinessHours ==
    \A i \in DOMAIN appointments : WithinHours(appointments[i])

\* The YYYY-MM-DD text of a day of January 2025.
CanonicalDate(day) == "2025-01-" \o Pad2(day)

\* C35: every persisted appointment has its date in the form YYYY-MM-DD and
\* its time in the 24-hour form HH:MM, so two appointments of one calendar
\* day carry equal date strings.
PersistedDatesCanonical ==
    /\ \A i \in DOMAIN appointments :
          /\ appointments[i].appointment_date
                = CanonicalDate(ParseDate(appointments[i].appointment_date))
          /\ appointments[i].appointment_time
                = FormatTime(ParseTime(appointments[i].appointment_time))
    /\ \A i, j \in DOMAIN appointments :
          ParseDate(appointments[i].appointment_date)
              = ParseDate(appointments[j].appointment_date)
          => appointments[i].appointment_date = appointments[j].appointment_date

\* SpecEvents: the webhooks of two calls in any order: incoming-call events
\* (also repeated ones), status events with a terminal and another value,
\* and for the first call turns that gather slots and book.

EventExtractions ==
    {EmptyExtraction,
     [EmptyExtraction EXCEPT !.name = "Ann", !.service = "Haircut",
                             !.date = "2025-01-13"],
     [EmptyExtraction EXCEPT !.time = "09:00", !.is_confirming = TRUE]}

EventTalk ==
    {<<"I would like to book", "Certainly.">>,
     <<"Thanks, bye", "You're welcome, goodbye!">>,
     <<"I would like to book", ProviderError>>}

TerminalStatuses == {"completed", "busy", "failed", "no-answer", "canceled"}
EventStatuses == {"completed", "in-progress"}

EventsBounded ==
    /\ Len(appointments) <= MaxAppointments
    /\ \A i \in DOMAIN callers : callers[i].total_calls <= MaxTurns

NextEvents ==
    \/ \E c \in CallSids : IncomingCall(c, PhoneOf(c)) /\ EventsBounded'
    \/ \E e \in EventExtractions, talk \in EventTalk :
          /\ "CA1" \in DOMAIN call_logs
          /\ SpeechInput("CA1", PhoneOf("CA1"), talk[1], e, talk[2])
          /\ EventsBounded'
    \/ \E c \in CallSids, st \in EventStatuses :
          /\ c \in DOMAIN call_logs
          /\ CallStatus(c, st)

SpecEvents == Init /\ [][NextEvents]_vars

SecondIncomingKeepsContext ==
    [][\A c \in CallSids :
          (/\ c \in DOMAIN call_logs
           /\ c \in DOMAIN conversation_states
           /\ IncomingCall(c, PhoneOf(c))) =>
              /\ last' = [op |-> "incoming", raised |-> TRUE]
              /\ conversation_states' = conversation_states
              /\ call_logs' = call_logs
              /\ callers' = callers]_vars

\* A second incoming-call event was just refused for a call that has
\* gathered slots and exchanged messages.
SecondIncomingKeepsContextWitness ==
    /\ last = [op |-> "incoming", raised |-> TRUE]
    /\ \E c \in CallSids :
          /\ c \in DOMAIN conversation_states
          /\ ~call_logs[c].ended
          /\ conversation_states[c].requested_service = "Haircut"
          /\ Len(conversation_states[c].messages) >= 3

\* The answer of a turn and the tables after it, with the state field of
\* the stored contexts left out.
TurnOutcome(states, c, e, talk) ==
    LET r == handle_speech_input(appointments, callers, call_logs, states, c,
                                 PhoneOf(c), talk[1], e, talk[2])
    IN [appointments |-> r.appointments, callers |-> r.callers,
        call_logs |-> r.call_logs, last |-> r.last,
        contexts |-> [d \in DOMAIN r.conversation_states |->
                         [r.conversation_states[d] EXCEPT !.state = "greeting"]]]

\* C38: the state field of every stored context is greeting in every
\* reachable state, and the outcome of a turn does not depend on the field:
\* with any other value in its place the turn answers the same and leaves
\* the same tables.
StateIsAlwaysGreeting ==
    \A c \in DOMAIN conversation_states :
        /\ conversation_states[c].state = "greeting"
        /\ \A v \in ConversationState, e \in EventExtractions, talk \in EventTalk :
              TurnOutcome([conversation_states EXCEPT ![c].state = v], c, e, talk)
                  = TurnOutcome(conversation_states, c, e, talk)

\* A call has been greeted, has gathered its slots and booked, another call
\* has ended, and the stored context is still in the state greeting.
StateIsAlwaysGreetingWitness ==
    /\ Len(appointments) >= 1
    /\ \E c \in DOMAIN conversation_states :
          /\ conversation_states[c].state = "greeting"
          /\ Truthy(conversation_states[c].requested_time)
          /\ Len(conversation_states[c].messages) >= 5
          /\ \E d \in DOMAIN call_logs : d # c /\ call_logs[d].ended

====
